---- MODULE Spec2Model ----
(***************************************************************************)
(* The estimate modal of the field-service dashboard                       *)
(* (src/src/components/Estimates/EstimateDetailModal.tsx): the in-memory   *)
(* line-item editor, the totals calculation, the save, the status changes  *)
(* and the conversion of an estimate into a ticket or a project, against   *)
(* the rows of the relational store.                                       *)
(*                                                                         *)
(* Money is held in whole currency units.  The catalog prices, the typed   *)
(* prices and the tax rates of the model are multiples of ten, so that     *)
(* (subtotal - discount) * taxRate is a multiple of 100 and the division   *)
(* by 100 of calculateTotals is exact.                                     *)
(***************************************************************************)
EXTENDS Integers, Sequences, FiniteSets, TLC

(***************************************************************************)
(* Bounds of the model.                                                    *)
(***************************************************************************)
MaxItems == 2          \* longest in-memory list addLineItem may build
MaxLoadCalls == 1      \* most un-awaited loadEstimateDetails calls one modal has in flight
MaxRows == 3           \* most line items of an estimate the totals are computed of
MaxEdits == 2          \* most editor operations (inputs, selects, add, remove) of a run
MaxCalls == 3          \* most handler calls (save, cancel, status change, conversion) of a run
MaxSaves == 2          \* a save or a cancel is among the first MaxSaves handler calls of a run
MaxApply == 1          \* how often an editor function is applied, one after another, when checked alone

(***************************************************************************)
(* Optional values: null/undefined is None, a present value v is Some(v).  *)
(***************************************************************************)
None == << >>
Some(v) == << v >>
Val(o) == o[1]

(***************************************************************************)
(* The catalogs loadData reads.                                            *)
(***************************************************************************)
LaborRateProfile == [standard_rate |-> 100, after_hours_rate |-> 150, emergency_rate |-> 200]

\* loadData: the three rates built from the active profile row
RatesOf(profile) ==
    << [key |-> "standard",    name |-> "Standard Rate",    rate |-> profile.standard_rate],
       [key |-> "after_hours", name |-> "After-Hours Rate", rate |-> profile.after_hours_rate],
       [key |-> "emergency",   name |-> "Emergency Rate",   rate |-> profile.emergency_rate] >>

\* rows of the parts table, ordered by name; a part may have no cost
PartsTable ==
    << [id |-> "p1", name |-> "Bolt",   cost |-> Some(30)],
       [id |-> "p2", name |-> "Sample", cost |-> None] >>

\* rows of the equipment table
EquipmentTable ==
    << [id |-> "q1", manufacturer |-> "Acme", model_number |-> "X1"] >>

\* the template literal `${equip.manufacturer} ${equip.model_number}`
EquipLabel(equip) ==
    IF equip.manufacturer = "Acme" /\ equip.model_number = "X1" THEN "Acme X1" ELSE "equipment"

\* Array.prototype.find: the first element among the positions hits, or None
Find(seq, hits) ==
    IF hits = {} THEN None
    ELSE Some(seq[CHOOSE i \in hits : \A j \in hits : i <= j])

(***************************************************************************)
(* Line items.                                                             *)
(***************************************************************************)
ItemTypes == {"labor", "parts", "equipment", "discount", "other"}

\* a LineItem value; fields an object does not carry are None
LineItem(id, order, type, desc, qty, price, total) ==
    [id |-> id, line_order |-> order, item_type |-> type, description |-> desc,
     quantity |-> qty, unit_price |-> price, line_total |-> total,
     part_id |-> None, equipment_id |-> None, labor_hours |-> None, labor_rate |-> None]

\* Math.abs
Abs(x) == IF x < 0 THEN -x ELSE x

\* lineItems.reduce(..., 0) of subtotal: from the left, from position i on
RECURSIVE ReduceSubtotal(_, _, _)
ReduceSubtotal(items, i, sum) ==
    IF i > Len(items) THEN sum
    ELSE ReduceSubtotal(items, i + 1,
            IF items[i].item_type # "discount" THEN sum + items[i].line_total ELSE sum)

\* a discount sum that forgets Math.abs
RECURSIVE ReduceDiscountSigned(_, _, _)
ReduceDiscountSigned(items, i, sum) ==
    IF i > Len(items) THEN sum
    ELSE ReduceDiscountSigned(items, i + 1,
            IF items[i].item_type = "discount" THEN sum + items[i].line_total ELSE sum)

\* lineItems.reduce(..., 0) of discount
RECURSIVE ReduceDiscount(_, _, _)
ReduceDiscount(items, i, sum) ==
    IF i > Len(items) THEN sum
    ELSE ReduceDiscount(items, i + 1,
            IF items[i].item_type = "discount" THEN sum + Abs(items[i].line_total) ELSE sum)

\* estimate?.tax_rate || 0
TaxRateOf(est) == IF est = None THEN 0 ELSE Val(est).tax_rate

calculateTotals(items, est) ==
    LET subtotal  == ReduceSubtotal(items, 1, 0)
        discount  == ReduceDiscount(items, 1, 0)
        taxAmount == ((subtotal - discount) * TaxRateOf(est)) \div 100
        total     == subtotal - discount + taxAmount
    IN  [subtotal |-> subtotal, discount |-> discount, taxAmount |-> taxAmount, total |-> total]

\* an update that recomputes line_total whatever the field
updateLineItemAlwaysRecomputes(items, id, field, value) ==
    [i \in DOMAIN items |->
        IF items[i].id = id
        THEN LET updated == [items[i] EXCEPT ![field] = value]
             IN  [updated EXCEPT !.line_total = updated.quantity * updated.unit_price]
        ELSE items[i]]

updateLineItem(items, id, field, value) ==
    [i \in DOMAIN items |->
        IF items[i].id = id
        THEN LET updated == [items[i] EXCEPT ![field] = value]
             IN  IF field = "quantity" \/ field = "unit_price"
                 THEN [updated EXCEPT !.line_total = updated.quantity * updated.unit_price]
                 ELSE updated
        ELSE items[i]]

\* a rate selection that computes line_total from the price held before
handleLaborRateSelectStaleTotal(items, rates, itemId, rateKey) ==
    LET rate == Find(rates, {i \in DOMAIN rates : rates[i].key = rateKey})
    IN  IF rate # None
        THEN [i \in DOMAIN items |->
                IF items[i].id = itemId
                THEN [items[i] EXCEPT !.description = Val(rate).name,
                                      !.unit_price  = Val(rate).rate,
                                      !.labor_rate  = Some(Val(rate).rate),
                                      !.line_total  = items[i].quantity * items[i].unit_price]
                ELSE items[i]]
        ELSE items

handleLaborRateSelect(items, rates, itemId, rateKey) ==
    LET rate == Find(rates, {i \in DOMAIN rates : rates[i].key = rateKey})
    IN  IF rate # None
        THEN [i \in DOMAIN items |->
                IF items[i].id = itemId
                THEN [items[i] EXCEPT !.description = Val(rate).name,
                                      !.unit_price  = Val(rate).rate,
                                      !.labor_rate  = Some(Val(rate).rate),
                                      !.line_total  = items[i].quantity * Val(rate).rate]
                ELSE items[i]]
        ELSE items

handlePartSelect(items, partRows, itemId, partId) ==
    LET part == Find(partRows, {i \in DOMAIN partRows : partRows[i].id = partId})
    IN  IF part # None
        THEN [i \in DOMAIN items |->
                IF items[i].id = itemId
                THEN LET unitPrice == IF Val(part).cost = None THEN 0 ELSE Val(Val(part).cost)
                     IN  [items[i] EXCEPT !.part_id     = Some(partId),
                                          !.description = Val(part).name,
                                          !.unit_price  = unitPrice,
                                          !.line_total  = items[i].quantity * unitPrice]
                ELSE items[i]]
        ELSE items

\* an equipment selection that leaves price and total as they were
handleEquipmentSelectKeepsPrice(items, equipRows, itemId, equipmentId) ==
    LET equip == Find(equipRows, {i \in DOMAIN equipRows : equipRows[i].id = equipmentId})
    IN  IF equip # None
        THEN [i \in DOMAIN items |->
                IF items[i].id = itemId
                THEN [items[i] EXCEPT !.equipment_id = Some(equipmentId),
                                      !.description  = EquipLabel(Val(equip))]
                ELSE items[i]]
        ELSE items

handleEquipmentSelect(items, equipRows, itemId, equipmentId) ==
    LET equip == Find(equipRows, {i \in DOMAIN equipRows : equipRows[i].id = equipmentId})
    IN  IF equip # None
        THEN [i \in DOMAIN items |->
                IF items[i].id = itemId
                THEN [items[i] EXCEPT !.equipment_id = Some(equipmentId),
                                      !.description  = EquipLabel(Val(equip)),
                                      !.unit_price   = 0,
                                      !.line_total   = 0]
                ELSE items[i]]
        ELSE items

\* crypto.randomUUID(): an identifier no item of the list carries
FreshId(items) ==
    CHOOSE n \in 1..(Len(items) + 1) : \A i \in DOMAIN items : items[i].id # n

\* an addition that numbers the new item by the list's length
addLineItemCountsIds(items) ==
    Append(items, LineItem(Len(items) + 1, Len(items), "labor", "", 1, 0, 0))

addLineItem(items) ==
    Append(items, LineItem(FreshId(items), Len(items), "labor", "", 1, 0, 0))

\* a removal without the guard on the list's length
removeLineItemUnguarded(items, id) ==
    LET Other(item) == item.id # id
    IN  SelectSeq(items, Other)

removeLineItem(items, id) ==
    LET Other(item) == item.id # id
    IN  IF Len(items) > 1 THEN SelectSeq(items, Other) ELSE items

\* item.description && item.description.trim() !== ''
NonBlank(item) == item.description # "" /\ item.description # " "

\* rows handed to insert that keep the labor fields held in memory
lineItemsToInsertKeepsLabor(items) ==
    LET kept == SelectSeq(items, NonBlank)
    IN  [index \in DOMAIN kept |->
            [line_order   |-> index - 1,
             item_type    |-> kept[index].item_type,
             description  |-> kept[index].description,
             quantity     |-> kept[index].quantity,
             unit_price   |-> kept[index].unit_price,
             line_total   |-> kept[index].line_total,
             part_id      |-> kept[index].part_id,
             equipment_id |-> kept[index].equipment_id,
             labor_hours  |-> kept[index].labor_hours,
             labor_rate   |-> kept[index].labor_rate]]

\* rows handed to insert that keep the line_order held in memory
lineItemsToInsertKeepsOrder(items) ==
    LET kept == SelectSeq(items, NonBlank)
    IN  [index \in DOMAIN kept |->
            [line_order   |-> kept[index].line_order,
             item_type    |-> kept[index].item_type,
             description  |-> kept[index].description,
             quantity     |-> kept[index].quantity,
             unit_price   |-> kept[index].unit_price,
             line_total   |-> kept[index].line_total,
             part_id      |-> kept[index].part_id,
             equipment_id |-> kept[index].equipment_id,
             labor_hours  |-> IF kept[index].item_type = "labor"
                              THEN Some(kept[index].quantity) ELSE None,
             labor_rate   |-> IF kept[index].item_type = "labor"
                              THEN Some(kept[index].unit_price) ELSE None]]

\* handleSave: the rows handed to insert, line_order renumbered from zero
lineItemsToInsert(items) ==
    LET kept == SelectSeq(items, NonBlank)
    IN  [index \in DOMAIN kept |->
            [line_order   |-> index - 1,
             item_type    |-> kept[index].item_type,
             description  |-> kept[index].description,
             quantity     |-> kept[index].quantity,
             unit_price   |-> kept[index].unit_price,
             line_total   |-> kept[index].line_total,
             part_id      |-> kept[index].part_id,
             equipment_id |-> kept[index].equipment_id,
             labor_hours  |-> IF kept[index].item_type = "labor"
                              THEN Some(kept[index].quantity) ELSE None,
             labor_rate   |-> IF kept[index].item_type = "labor"
                              THEN Some(kept[index].unit_price) ELSE None]]

\* the store's insert: each row gets an id no row of the estimate carries
RECURSIVE InsertRows(_, _)
InsertRows(table, rows) ==
    IF rows = << >> THEN table
    ELSE InsertRows(Append(table, [id |-> FreshId(table)] @@ Head(rows)), Tail(rows))

\* select('*').order('line_order'): the rows by line_order; rows of equal
\* line_order come in any order
OrderedByLineOrder(table) ==
    { [i \in DOMAIN table |-> table[p[i]]] :
        p \in { q \in [DOMAIN table -> DOMAIN table] :
                  /\ \A i, j \in DOMAIN table : i # j => q[i] # q[j]
                  /\ \A i, j \in DOMAIN table :
                        i < j => table[q[i]].line_order <= table[q[j]].line_order } }

(***************************************************************************)
(* The store and the modals.                                               *)
(***************************************************************************)
EstimateIds == {"e1", "e2"}
Sessions == {"A", "B"}

\* useAuth(): the signed-in profile
Profile == Some([id |-> "u1"])

\* new Date().toISOString()
Now == Some("now")

VARIABLES
    estimates,              \* table estimates: id -> row
    estimate_line_items,    \* table estimate_line_items: estimate id -> its rows
    tickets,                \* table tickets: the rows, in insertion order
    projects,               \* table projects: the rows, in insertion order
    estimateId,             \* prop estimateId of each modal (None: null)
    isOpen,                 \* prop isOpen of each modal
    loading, saving, converting, editing,   \* useState flags of each modal
    estimate,               \* useState estimate (None: null)
    lineItems,              \* useState lineItems
    laborRates, parts, equipment,           \* useState catalogs
    loadCalls,              \* loadEstimateDetails calls nobody awaits, by estimate id
    dataCalls,              \* loadData calls in flight
    saveCall,               \* the handleSave in flight (None: none)
    statusCalls,            \* the handleStatusChange calls in flight
    convertCall,            \* the conversion in flight (None: none)
    lastAlert,              \* the alert() the last step showed (None: none)
    totals,                 \* const totals = calculateTotals() of the last render
    edits,                  \* how many editor operations the run has applied so far
    calls,                  \* how many handler calls the run has started so far
    ticketModal             \* TicketDetailModal: its useState values, the handleUpdate in
                            \* flight, how often it has called onUpdate and onClose

dbVars   == << estimates, estimate_line_items, tickets, projects >>
propVars == << estimateId, isOpen >>
flagVars == << loading, saving, converting, editing >>
dataVars == << estimate, lineItems >>
catVars  == << laborRates, parts, equipment >>
callVars == << loadCalls, dataCalls, saveCall, statusCalls, convertCall >>
auxVars  == << totals, edits, calls >>
ticketVars == << ticketModal >>
vars == << dbVars, propVars, flagVars, dataVars, catVars, callVars, lastAlert, auxVars, ticketVars >>

\* a handler call starts, among the first max calls of the run
StartCall(max) ==
    /\ calls < max
    /\ calls' = calls + 1
    /\ UNCHANGED << totals, edits, ticketVars >>

\* alert(text) in a handler of modal s; step is the await the handler had
\* reached (kept for the properties, the program does not show it)
ShowAlert(s, text, step) == lastAlert' = Some([modal |-> s, text |-> text, step |-> step])

\* a step that shows no alert
NoAlert == lastAlert' = None

(***************************************************************************)
(* Rows of the store before the modal is used.                             *)
(***************************************************************************)
\* a row of estimate_line_items as the store holds it before any save
StoredItem(id, order, type, desc, qty, price, total) ==
    [LineItem(id, order, type, desc, qty, price, total) EXCEPT
        !.labor_hours = IF type = "labor" THEN Some(qty) ELSE None,
        !.labor_rate  = IF type = "labor" THEN Some(price) ELSE None]

LaborRow(id, order)    == StoredItem(id, order, "labor", "Standard Rate", 2, 100, 200)
DiscountRow(id, order) == StoredItem(id, order, "discount", "Discount", 1, 20, -20)

\* a row of estimates whose totals are those of its line items
EstimateRow(id, status, taxRate, rows) ==
    LET t == calculateTotals(rows, Some([tax_rate |-> taxRate]))
    IN  [id |-> id, customer_id |-> "c-" \o id,
         job_title |-> "Job " \o id, job_description |-> "", site_location |-> "Site",
         notes |-> "", terms_conditions |-> "Net 30",
         status |-> status, tax_rate |-> taxRate,
         subtotal |-> t.subtotal, tax_amount |-> t.taxAmount, total_amount |-> t.total,
         converted_to_ticket_id |-> None, converted_to_project_id |-> None,
         sent_date |-> IF status = "draft" THEN None ELSE Now,
         accepted_date |-> None, rejected_date |-> None, conversion_date |-> None]

\* the state of each modal after construction (the useState initial values)
\* TicketDetailModal after loadTicket has answered with the row (None: no
\* ticket was loaded)
TicketModalOf(row) ==
    [ticket |-> row,
     status |-> IF row = None THEN "" ELSE Val(row).status,
     hoursOnsite |-> IF row = None THEN None ELSE Val(row).hours_onsite,
     saving |-> FALSE, call |-> None, onUpdate |-> 0, onClose |-> 0]

InitModals ==
    /\ estimateId = [s \in Sessions |-> None]
    /\ isOpen     = [s \in Sessions |-> FALSE]
    /\ loading    = [s \in Sessions |-> TRUE]
    /\ saving     = [s \in Sessions |-> FALSE]
    /\ converting = [s \in Sessions |-> FALSE]
    /\ editing    = [s \in Sessions |-> FALSE]
    /\ estimate   = [s \in Sessions |-> None]
    /\ lineItems  = [s \in Sessions |-> << >>]
    /\ laborRates = [s \in Sessions |-> << >>]
    /\ parts      = [s \in Sessions |-> << >>]
    /\ equipment  = [s \in Sessions |-> << >>]
    /\ loadCalls  = [s \in Sessions |-> [e \in EstimateIds |-> 0]]
    /\ dataCalls  = [s \in Sessions |-> 0]
    /\ saveCall   = [s \in Sessions |-> None]
    /\ statusCalls = [s \in Sessions |-> << >>]
    /\ convertCall = [s \in Sessions |-> None]
    /\ lastAlert  = None
    /\ totals     = [s \in Sessions |-> calculateTotals(<< >>, None)]
    /\ edits      = 0
    /\ calls      = 0
    /\ ticketModal = TicketModalOf(None)

\* the line items of estimate e2
OtherRows == << StoredItem(1, 0, "parts", "Bolt", 1, 30, 30) >>

\* the store: e1 is an estimate of one of the statuses with one or two line
\* items, e2 a draft with one line item
InitStoreOf(statuses) ==
    /\ \E st \in statuses :
       \E rows \in { << LaborRow(1, 0) >>, << LaborRow(1, 0), DiscountRow(2, 1) >> } :
          /\ estimate_line_items = [e \in EstimateIds |-> IF e = "e1" THEN rows ELSE OtherRows]
          /\ estimates = [e \in EstimateIds |->
                            IF e = "e1" THEN EstimateRow(e, st, 10, rows)
                            ELSE EstimateRow(e, "draft", 0, OtherRows)]
    /\ tickets = << >>
    /\ projects = << >>

InitStore == InitStoreOf({"draft", "viewed"})

Init == InitStore /\ InitModals

(***************************************************************************)
(* Opening and closing the modal (EstimatesViewContainer), and the loads.  *)
(***************************************************************************)
\* loadEstimateDetails up to its await: if (!estimateId) return; setLoading(true)
StartLoad(s, id) ==
    IF id = None THEN UNCHANGED loading
    ELSE loading' = [loading EXCEPT ![s] = TRUE]

\* loadEstimateDetails from its await on: both queries answered (ok) or one
\* of them failed
FinishLoad(s, e, ok) ==
    /\ loading' = [loading EXCEPT ![s] = FALSE]
    /\ IF ok
       THEN /\ estimate' = [estimate EXCEPT ![s] = Some(estimates[e])]
            /\ \E rows \in OrderedByLineOrder(estimate_line_items[e]) :
                  lineItems' = [lineItems EXCEPT ![s] = rows]
       ELSE UNCHANGED dataVars

\* handleViewEstimate, then the effect on [isOpen, estimateId]
Open(s, e) ==
    /\ ~isOpen[s]
    /\ loadCalls[s][e] < MaxLoadCalls
    /\ dataCalls[s] < MaxLoadCalls
    /\ estimateId' = [estimateId EXCEPT ![s] = Some(e)]
    /\ isOpen' = [isOpen EXCEPT ![s] = TRUE]
    /\ StartLoad(s, Some(e))
    /\ loadCalls' = [loadCalls EXCEPT ![s][e] = @ + 1]
    /\ dataCalls' = [dataCalls EXCEPT ![s] = @ + 1]
    /\ NoAlert
    /\ UNCHANGED << dbVars, saving, converting, editing, dataVars, catVars, saveCall,
                    statusCalls, convertCall, auxVars, ticketVars >>

\* onClose of the container
Close(s) ==
    /\ isOpen[s]
    /\ isOpen' = [isOpen EXCEPT ![s] = FALSE]
    /\ estimateId' = [estimateId EXCEPT ![s] = None]
    /\ NoAlert
    /\ UNCHANGED << dbVars, flagVars, dataVars, catVars, callVars, auxVars, ticketVars >>

\* an un-awaited loadEstimateDetails is answered
LoadDone(s, e, ok) ==
    /\ loadCalls[s][e] > 0
    /\ loadCalls' = [loadCalls EXCEPT ![s][e] = @ - 1]
    /\ FinishLoad(s, e, ok)
    /\ NoAlert
    /\ UNCHANGED << dbVars, propVars, saving, converting, editing, catVars, dataCalls,
                    saveCall, statusCalls, convertCall, auxVars, ticketVars >>

\* loadData is answered: each of its three queries with data or without
LoadDataDone(s, ratesOk, partsOk, equipOk) ==
    /\ dataCalls[s] > 0
    /\ dataCalls' = [dataCalls EXCEPT ![s] = @ - 1]
    /\ laborRates' = IF ratesOk THEN [laborRates EXCEPT ![s] = RatesOf(LaborRateProfile)]
                     ELSE laborRates
    /\ parts' = IF partsOk THEN [parts EXCEPT ![s] = PartsTable] ELSE parts
    /\ equipment' = IF equipOk THEN [equipment EXCEPT ![s] = EquipmentTable] ELSE equipment
    /\ NoAlert
    /\ UNCHANGED << dbVars, propVars, flagVars, dataVars, loadCalls, saveCall, statusCalls,
                    convertCall, auxVars, ticketVars >>

(***************************************************************************)
(* The editor: what the rendered controls let the user do.                 *)
(***************************************************************************)
\* the body of the modal is rendered: loading ? spinner : estimate ? body : ...
BodyShown(s) == isOpen[s] /\ ~loading[s] /\ estimate[s] # None

\* the controls of a line item are rendered: the body, in editing mode
EditorShown(s) == BodyShown(s) /\ editing[s]

ItemIds(s) == { lineItems[s][i].id : i \in DOMAIN lineItems[s] }

ItemById(s, id) == lineItems[s][CHOOSE i \in DOMAIN lineItems[s] : lineItems[s][i].id = id]

\* parseFloat(e.target.value) || dflt, the typed text being a number or not (None)
ParseFloatOr(typed, dflt) ==
    IF typed = None \/ Val(typed) = 0 THEN dflt ELSE Val(typed)

\* an editor that writes every change of the list through to the store
SetLineItemsWriteThrough(s, items) ==
    /\ edits < MaxEdits
    /\ edits' = edits + 1
    /\ lineItems' = [lineItems EXCEPT ![s] = items]
    /\ estimate_line_items' = IF estimate[s] = None THEN estimate_line_items
                               ELSE [estimate_line_items EXCEPT ![Val(estimate[s]).id] = items]
    /\ NoAlert
    /\ UNCHANGED << estimates, tickets, projects, propVars, flagVars, estimate, catVars,
                    callVars, totals, calls, ticketVars >>

SetLineItems(s, items) ==
    /\ edits < MaxEdits
    /\ edits' = edits + 1
    /\ lineItems' = [lineItems EXCEPT ![s] = items]
    /\ NoAlert
    /\ UNCHANGED << dbVars, propVars, flagVars, estimate, catVars, callVars, totals, calls, ticketVars >>

\* the Edit button
EditClick(s) ==
    /\ isOpen[s] /\ ~editing[s]
    /\ editing' = [editing EXCEPT ![s] = TRUE]
    /\ NoAlert
    /\ UNCHANGED << dbVars, propVars, loading, saving, converting, dataVars, catVars, callVars,
                    auxVars, ticketVars >>

\* the Type select of a line item: one of its four options
TypeSelect(s, id, type) ==
    /\ EditorShown(s) /\ id \in ItemIds(s)
    /\ type \in {"labor", "parts", "equipment", "other"}
    /\ SetLineItems(s, updateLineItem(lineItems[s], id, "item_type", type))

\* the Description input, rendered for the types without a catalog
DescriptionInput(s, id, text) ==
    /\ EditorShown(s) /\ id \in ItemIds(s)
    /\ ItemById(s, id).item_type \notin {"labor", "parts", "equipment"}
    /\ SetLineItems(s, updateLineItem(lineItems[s], id, "description", text))

\* the Hours/Qty input
QuantityInput(s, id, typed) ==
    /\ EditorShown(s) /\ id \in ItemIds(s)
    /\ SetLineItems(s, updateLineItem(lineItems[s], id, "quantity",
            ParseFloatOr(typed, IF ItemById(s, id).item_type = "labor" THEN 1 ELSE 0)))

\* the Rate/Hr input
UnitPriceInput(s, id, typed) ==
    /\ EditorShown(s) /\ id \in ItemIds(s)
    /\ SetLineItems(s, updateLineItem(lineItems[s], id, "unit_price", ParseFloatOr(typed, 0)))

\* the Labor Rate select of a labor item: "" or the key of a loaded rate
LaborRateSelect(s, id, rateKey) ==
    /\ EditorShown(s) /\ id \in ItemIds(s)
    /\ ItemById(s, id).item_type = "labor"
    /\ rateKey \in {""} \cup { laborRates[s][i].key : i \in DOMAIN laborRates[s] }
    /\ SetLineItems(s, handleLaborRateSelect(lineItems[s], laborRates[s], id, rateKey))

\* the Part select of a parts item: "" or the id of a loaded part
PartSelect(s, id, partId) ==
    /\ EditorShown(s) /\ id \in ItemIds(s)
    /\ ItemById(s, id).item_type = "parts"
    /\ partId \in {""} \cup { parts[s][i].id : i \in DOMAIN parts[s] }
    /\ SetLineItems(s, handlePartSelect(lineItems[s], parts[s], id, partId))

\* the Equipment select of an equipment item
EquipmentSelect(s, id, equipmentId) ==
    /\ EditorShown(s) /\ id \in ItemIds(s)
    /\ ItemById(s, id).item_type = "equipment"
    /\ equipmentId \in {""} \cup { equipment[s][i].id : i \in DOMAIN equipment[s] }
    /\ SetLineItems(s, handleEquipmentSelect(lineItems[s], equipment[s], id, equipmentId))

\* the Add Line Item button
AddClick(s) ==
    /\ EditorShown(s)
    /\ Len(lineItems[s]) < MaxItems
    /\ SetLineItems(s, addLineItem(lineItems[s]))

\* the Remove button of a line item, rendered while the list has several
RemoveClick(s, id) ==
    /\ EditorShown(s) /\ id \in ItemIds(s)
    /\ Len(lineItems[s]) > 1
    /\ SetLineItems(s, removeLineItem(lineItems[s], id))

\* updateLineItem(id, field, value) invoked in the editor, whatever the list
\* and the id
UpdateCall(s, id, field, value) ==
    /\ EditorShown(s)
    /\ edits < MaxApply
    /\ SetLineItems(s, updateLineItem(lineItems[s], id, field, value))

\* handleLaborRateSelect(itemId, rateKey) invoked in the editor, whatever the
\* list, the id and the key
LaborRateCall(s, id, rateKey) ==
    /\ EditorShown(s)
    /\ edits < MaxApply
    /\ SetLineItems(s, handleLaborRateSelect(lineItems[s], laborRates[s], id, rateKey))

\* handlePartSelect(itemId, partId) invoked in the editor, whatever the list
\* and the ids
PartCall(s, id, partId) ==
    /\ EditorShown(s)
    /\ edits < MaxApply
    /\ SetLineItems(s, handlePartSelect(lineItems[s], parts[s], id, partId))

\* handleEquipmentSelect(itemId, equipmentId) invoked in the editor, whatever
\* the list and the ids
EquipmentCall(s, id, equipmentId) ==
    /\ EditorShown(s)
    /\ edits < MaxApply
    /\ SetLineItems(s, handleEquipmentSelect(lineItems[s], equipment[s], id, equipmentId))

\* addLineItem() invoked in the editor, whatever the list
AddCall(s) ==
    /\ EditorShown(s)
    /\ SetLineItems(s, addLineItem(lineItems[s]))

\* removeLineItem(id) invoked in the editor, whatever the list and the id
RemoveCall(s, id) ==
    /\ EditorShown(s)
    /\ SetLineItems(s, removeLineItem(lineItems[s], id))

\* an input of the header: setEstimate({ ...estimate, [field]: value })
SetEstimateField(s, field, value) ==
    /\ edits < MaxEdits
    /\ edits' = edits + 1
    /\ estimate' = [estimate EXCEPT ![s] = Some([Val(estimate[s]) EXCEPT ![field] = value])]
    /\ NoAlert
    /\ UNCHANGED << dbVars, propVars, flagVars, lineItems, catVars, callVars, totals, calls, ticketVars >>

\* the Job title input, rendered in editing mode whatever loading is
JobTitleInput(s, text) ==
    /\ isOpen[s] /\ editing[s] /\ estimate[s] # None
    /\ SetEstimateField(s, "job_title", text)

\* the Job Description and Notes textareas
TextInput(s, field, text) ==
    /\ EditorShown(s)
    /\ field \in {"job_description", "notes"}
    /\ SetEstimateField(s, field, text)

\* the Tax input
TaxRateInput(s, typed) ==
    /\ EditorShown(s)
    /\ SetEstimateField(s, "tax_rate", ParseFloatOr(typed, 0))

\* a render of the open modal: const totals = calculateTotals()
Render(s) ==
    /\ isOpen[s]
    /\ totals' = [totals EXCEPT ![s] = calculateTotals(lineItems[s], estimate[s])]
    /\ NoAlert
    /\ UNCHANGED << dbVars, propVars, flagVars, dataVars, catVars, callVars, edits, calls, ticketVars >>

(***************************************************************************)
(* handleSave and handleCancel.  A handler runs on the values of the       *)
(* render it was created in: the call in flight keeps them.  Each await is *)
(* one step: the store answers (ok or not) and the handler runs on to its  *)
(* next await or to its end.                                               *)
(***************************************************************************)
\* the Save button: handleSave up to the await of the header update; before
\* is not a value of the program: it keeps, for the properties, the header
\* row the update overwrote
SaveClick(s) ==
    /\ isOpen[s] /\ editing[s] /\ ~saving[s]
    /\ estimate[s] # None
    /\ saving' = [saving EXCEPT ![s] = TRUE]
    /\ saveCall' = [saveCall EXCEPT ![s] =
            Some([step |-> "update", estimate |-> Val(estimate[s]), lineItems |-> lineItems[s],
                  estimateId |-> estimateId[s],
                  totals |-> calculateTotals(lineItems[s], estimate[s]),
                  before |-> None])]
    /\ NoAlert
    /\ UNCHANGED << dbVars, propVars, loading, converting, editing, dataVars, catVars,
                    loadCalls, dataCalls, statusCalls, convertCall >>
    /\ StartCall(MaxSaves)

\* catch and finally of handleSave
SaveFailed(s) ==
    /\ ShowAlert(s, "Failed to save estimate. Please try again.", Val(saveCall[s]).step)
    /\ saving' = [saving EXCEPT ![s] = FALSE]
    /\ saveCall' = [saveCall EXCEPT ![s] = None]

\* a header update whose error is not thrown: the save goes on to its delete
SaveUpdateIgnoresError(s, ok) ==
    /\ saveCall[s] # None /\ Val(saveCall[s]).step = "update"
    /\ LET c == Val(saveCall[s]) IN
       /\ estimates' = IF ok
                        THEN [estimates EXCEPT ![c.estimate.id] =
                                [@ EXCEPT !.job_title = c.estimate.job_title,
                                          !.job_description = c.estimate.job_description,
                                          !.site_location = c.estimate.site_location,
                                          !.tax_rate = c.estimate.tax_rate,
                                          !.subtotal = c.totals.subtotal,
                                          !.tax_amount = c.totals.taxAmount,
                                          !.total_amount = c.totals.total,
                                          !.notes = c.estimate.notes,
                                          !.terms_conditions = c.estimate.terms_conditions]]
                        ELSE estimates
       /\ saveCall' = [saveCall EXCEPT ![s] =
               Some([c EXCEPT !.step = "delete", !.before = Some(estimates[c.estimate.id])])]
       /\ NoAlert
    /\ UNCHANGED << estimate_line_items, tickets, projects, propVars, flagVars,
                    dataVars, catVars, loadCalls, dataCalls, statusCalls,
                    convertCall, auxVars, ticketVars >>

\* a header update that writes the whole row the modal holds, the status and
\* the conversion references with it
SaveUpdateWholeRow(s, ok) ==
    /\ saveCall[s] # None /\ Val(saveCall[s]).step = "update"
    /\ LET c == Val(saveCall[s]) IN
       IF ok
       THEN /\ estimates' = [estimates EXCEPT ![c.estimate.id] =
                    [c.estimate EXCEPT !.subtotal = c.totals.subtotal,
                                       !.tax_amount = c.totals.taxAmount,
                                       !.total_amount = c.totals.total]]
            /\ saveCall' = [saveCall EXCEPT ![s] =
                    Some([c EXCEPT !.step = "delete", !.before = Some(estimates[c.estimate.id])])]
            /\ NoAlert
            /\ UNCHANGED << saving >>
       ELSE /\ SaveFailed(s)
            /\ UNCHANGED estimates
    /\ UNCHANGED << estimate_line_items, tickets, projects, propVars, loading, converting,
                    editing, dataVars, catVars, loadCalls, dataCalls, statusCalls,
                    convertCall, auxVars, ticketVars >>

\* the header update of handleSave is answered
SaveUpdate(s, ok) ==
    /\ saveCall[s] # None /\ Val(saveCall[s]).step = "update"
    /\ LET c == Val(saveCall[s]) IN
       IF ok
       THEN /\ estimates' = [estimates EXCEPT ![c.estimate.id] =
                    [@ EXCEPT !.job_title = c.estimate.job_title,
                              !.job_description = c.estimate.job_description,
                              !.site_location = c.estimate.site_location,
                              !.tax_rate = c.estimate.tax_rate,
                              !.subtotal = c.totals.subtotal,
                              !.tax_amount = c.totals.taxAmount,
                              !.total_amount = c.totals.total,
                              !.notes = c.estimate.notes,
                              !.terms_conditions = c.estimate.terms_conditions]]
            /\ saveCall' = [saveCall EXCEPT ![s] =
                    Some([c EXCEPT !.step = "delete", !.before = Some(estimates[c.estimate.id])])]
            /\ NoAlert
            /\ UNCHANGED << saving >>
       ELSE /\ SaveFailed(s)
            /\ UNCHANGED estimates
    /\ UNCHANGED << estimate_line_items, tickets, projects, propVars, loading, converting,
                    editing, dataVars, catVars, loadCalls, dataCalls, statusCalls,
                    convertCall, auxVars, ticketVars >>

\* handleSave after its writes: setEditing(false); await loadEstimateDetails()
SaveReload(s) ==
    /\ editing' = [editing EXCEPT ![s] = FALSE]
    /\ StartLoad(s, Val(saveCall[s]).estimateId)
    /\ saveCall' = [saveCall EXCEPT ![s] = Some([Val(saveCall[s]) EXCEPT !.step = "load"])]
    /\ NoAlert
    /\ UNCHANGED << saving >>

\* a delete without its filter on estimate_id: the rows of every estimate go
SaveDeleteAll(s, ok) ==
    /\ saveCall[s] # None /\ Val(saveCall[s]).step = "delete"
    /\ LET c == Val(saveCall[s]) IN
       IF ok
       THEN /\ estimate_line_items' = [e \in EstimateIds |-> << >>]
            /\ IF Len(lineItemsToInsert(c.lineItems)) > 0
               THEN /\ saveCall' = [saveCall EXCEPT ![s] = Some([c EXCEPT !.step = "insert"])]
                    /\ NoAlert
                    /\ UNCHANGED << saving, editing, loading >>
               ELSE SaveReload(s)
       ELSE /\ SaveFailed(s)
            /\ UNCHANGED << estimate_line_items, editing, loading >>
    /\ UNCHANGED << estimates, tickets, projects, propVars, converting, dataVars, catVars,
                    loadCalls, dataCalls, statusCalls, convertCall, auxVars, ticketVars >>

\* a delete whose error is not thrown: the save goes on to its insert
SaveDeleteIgnoresError(s, ok) ==
    /\ saveCall[s] # None /\ Val(saveCall[s]).step = "delete"
    /\ LET c == Val(saveCall[s]) IN
       /\ estimate_line_items' = IF ok THEN [estimate_line_items EXCEPT ![c.estimate.id] = << >>]
                                  ELSE estimate_line_items
       /\ IF Len(lineItemsToInsert(c.lineItems)) > 0
          THEN /\ saveCall' = [saveCall EXCEPT ![s] = Some([c EXCEPT !.step = "insert"])]
               /\ NoAlert
               /\ UNCHANGED << saving, editing, loading >>
          ELSE SaveReload(s)
    /\ UNCHANGED << estimates, tickets, projects, propVars, converting, dataVars, catVars,
                    loadCalls, dataCalls, statusCalls, convertCall, auxVars, ticketVars >>

\* the delete of the estimate's line items is answered
SaveDelete(s, ok) ==
    /\ saveCall[s] # None /\ Val(saveCall[s]).step = "delete"
    /\ LET c == Val(saveCall[s]) IN
       IF ok
       THEN /\ estimate_line_items' = [estimate_line_items EXCEPT ![c.estimate.id] = << >>]
            /\ IF Len(lineItemsToInsert(c.lineItems)) > 0
               THEN /\ saveCall' = [saveCall EXCEPT ![s] = Some([c EXCEPT !.step = "insert"])]
                    /\ NoAlert
                    /\ UNCHANGED << saving, editing, loading >>
               ELSE SaveReload(s)
       ELSE /\ SaveFailed(s)
            /\ UNCHANGED << estimate_line_items, editing, loading >>
    /\ UNCHANGED << estimates, tickets, projects, propVars, converting, dataVars, catVars,
                    loadCalls, dataCalls, statusCalls, convertCall, auxVars, ticketVars >>

\* an insert whose error is not thrown: the save ends as after a success
SaveInsertIgnoresError(s, ok) ==
    /\ saveCall[s] # None /\ Val(saveCall[s]).step = "insert"
    /\ LET c == Val(saveCall[s]) IN
       /\ estimate_line_items' = IF ok
                                  THEN [estimate_line_items EXCEPT ![c.estimate.id] =
                                          InsertRows(@, lineItemsToInsert(c.lineItems))]
                                  ELSE estimate_line_items
       /\ SaveReload(s)
    /\ UNCHANGED << estimates, tickets, projects, propVars, converting, dataVars, catVars,
                    loadCalls, dataCalls, statusCalls, convertCall, auxVars, ticketVars >>

\* the insert of the kept line items is answered
SaveInsert(s, ok) ==
    /\ saveCall[s] # None /\ Val(saveCall[s]).step = "insert"
    /\ LET c == Val(saveCall[s]) IN
       IF ok
       THEN /\ estimate_line_items' = [estimate_line_items EXCEPT ![c.estimate.id] =
                    InsertRows(@, lineItemsToInsert(c.lineItems))]
            /\ SaveReload(s)
       ELSE /\ SaveFailed(s)
            /\ UNCHANGED << estimate_line_items, editing, loading >>
    /\ UNCHANGED << estimates, tickets, projects, propVars, converting, dataVars, catVars,
                    loadCalls, dataCalls, statusCalls, convertCall, auxVars, ticketVars >>

\* the reload handleSave awaits is answered; then finally: setSaving(false)
SaveLoad(s, ok) ==
    /\ saveCall[s] # None /\ Val(saveCall[s]).step = "load"
    /\ IF Val(saveCall[s]).estimateId = None
       THEN UNCHANGED << loading, dataVars >>
       ELSE FinishLoad(s, Val(Val(saveCall[s]).estimateId), ok)
    /\ saving' = [saving EXCEPT ![s] = FALSE]
    /\ saveCall' = [saveCall EXCEPT ![s] = None]
    /\ NoAlert
    /\ UNCHANGED << dbVars, propVars, converting, editing, catVars, loadCalls, dataCalls,
                    statusCalls, convertCall, auxVars, ticketVars >>

\* the Cancel button: setEditing(false); loadEstimateDetails() without await
handleCancel(s) ==
    /\ isOpen[s] /\ editing[s] /\ ~saving[s]
    /\ loadCalls[s][Val(estimateId[s])] < MaxLoadCalls
    /\ editing' = [editing EXCEPT ![s] = FALSE]
    /\ StartLoad(s, estimateId[s])
    /\ loadCalls' = [loadCalls EXCEPT ![s][Val(estimateId[s])] = @ + 1]
    /\ NoAlert
    /\ UNCHANGED << dbVars, propVars, saving, converting, dataVars, catVars, dataCalls,
                    saveCall, statusCalls, convertCall >>
    /\ StartCall(MaxSaves)

(***************************************************************************)
(* handleStatusChange.                                                     *)
(***************************************************************************)
\* the footer of the modal is rendered: !loading && estimate
FooterShown(s) == isOpen[s] /\ ~loading[s] /\ estimate[s] # None

\* the statuses whose button the footer renders for an estimate of status st
StatusButtons(st) ==
    IF st = "draft" THEN {"sent"}
    ELSE IF st = "sent" \/ st = "viewed" THEN {"accepted", "rejected"}
    ELSE {}

\* the sequence seq without its element at position i
RemoveAt(seq, i) == [j \in 1..(Len(seq) - 1) |-> IF j < i THEN seq[j] ELSE seq[j + 1]]

\* a status button: handleStatusChange up to the await of the update
StatusClick(s, newStatus) ==
    /\ FooterShown(s)
    /\ newStatus \in StatusButtons(Val(estimate[s]).status)
    /\ ~(saving[s] \/ converting[s])
    /\ statusCalls' = [statusCalls EXCEPT ![s] =
            Append(@, [step |-> "update", newStatus |-> newStatus,
                       id |-> Val(estimate[s]).id, estimateId |-> estimateId[s]])]
    /\ NoAlert
    /\ UNCHANGED << dbVars, propVars, flagVars, dataVars, catVars,
                    loadCalls, dataCalls, saveCall, convertCall >>
    /\ StartCall(MaxCalls)

\* updateData of handleStatusChange applied to a row
StatusUpdateData(row, newStatus) ==
    [row EXCEPT !.status = newStatus,
                !.sent_date = IF newStatus = "sent" THEN Now ELSE @,
                !.accepted_date = IF newStatus = "accepted" THEN Now ELSE @,
                !.rejected_date = IF newStatus = "rejected" THEN Now ELSE @]

\* the update of the i-th status change in flight is answered
StatusUpdate(s, i, ok) ==
    /\ i \in DOMAIN statusCalls[s] /\ statusCalls[s][i].step = "update"
    /\ LET c == statusCalls[s][i] IN
       IF ok
       THEN /\ estimates' = [estimates EXCEPT ![c.id] = StatusUpdateData(@, c.newStatus)]
            /\ StartLoad(s, c.estimateId)
            /\ statusCalls' = [statusCalls EXCEPT ![s][i].step = "load"]
            /\ NoAlert
       ELSE /\ ShowAlert(s, "Failed to mark estimate as " \o c.newStatus \o ". Please try again.",
                         "update")
            /\ statusCalls' = [statusCalls EXCEPT ![s] = RemoveAt(@, i)]
            /\ UNCHANGED << estimates, loading >>
    /\ UNCHANGED << estimate_line_items, tickets, projects, propVars, saving, converting,
                    editing, dataVars, catVars, loadCalls, dataCalls, saveCall, convertCall,
                    auxVars, ticketVars >>

\* the reload the i-th status change awaits is answered; then its alert
StatusLoad(s, i, ok) ==
    /\ i \in DOMAIN statusCalls[s] /\ statusCalls[s][i].step = "load"
    /\ IF statusCalls[s][i].estimateId = None
       THEN UNCHANGED << loading, dataVars >>
       ELSE FinishLoad(s, Val(statusCalls[s][i].estimateId), ok)
    /\ ShowAlert(s, "Estimate " \o statusCalls[s][i].newStatus \o " successfully", "load")
    /\ statusCalls' = [statusCalls EXCEPT ![s] = RemoveAt(@, i)]
    /\ UNCHANGED << dbVars, propVars, saving, converting, editing, catVars,
                    loadCalls, dataCalls, saveCall, convertCall, auxVars, ticketVars >>

(***************************************************************************)
(* handleConvertToTicket and handleConvertToProject.                       *)
(***************************************************************************)
\* the convert buttons are rendered
ConvertShown(s) ==
    /\ FooterShown(s)
    /\ Val(estimate[s]).status = "accepted"
    /\ Val(estimate[s]).converted_to_ticket_id = None
    /\ Val(estimate[s]).converted_to_project_id = None

\* a convert button: the handler up to the await of its insert; the user
\* may answer the confirm() with no
ConvertClick(s, kind, confirmed) ==
    /\ ConvertShown(s)
    /\ ~(saving[s] \/ converting[s])
    /\ kind \in {"ticket", "project"}
    /\ Profile # None
    /\ IF confirmed
       THEN /\ converting' = [converting EXCEPT ![s] = TRUE]
            /\ convertCall' = [convertCall EXCEPT ![s] =
                    Some([step |-> "insert", kind |-> kind, estimate |-> Val(estimate[s]),
                          estimateId |-> estimateId[s], created |-> None])]
            /\ StartCall(MaxCalls)
       ELSE UNCHANGED << converting, convertCall, auxVars, ticketVars >>
    /\ NoAlert
    /\ UNCHANGED << dbVars, propVars, loading, saving, editing, dataVars, catVars,
                    loadCalls, dataCalls, saveCall, statusCalls >>

\* a catch of the conversion handlers without the finally: converting stays set
ConvertFailedKeepsFlag(s) ==
    /\ ShowAlert(s, "Failed to convert to " \o Val(convertCall[s]).kind \o ". Please try again.",
                 Val(convertCall[s]).step)
    /\ converting' = converting
    /\ convertCall' = [convertCall EXCEPT ![s] = None]

\* catch and finally of the conversion handlers
ConvertFailed(s) ==
    /\ ShowAlert(s, "Failed to convert to " \o Val(convertCall[s]).kind \o ". Please try again.",
                 Val(convertCall[s]).step)
    /\ converting' = [converting EXCEPT ![s] = FALSE]
    /\ convertCall' = [convertCall EXCEPT ![s] = None]

\* the row handleConvertToTicket inserts; from_estimate is not a column: it
\* records the estimate the conversion was run on
TicketRow(id, est) ==
    [id |-> id, customer_id |-> est.customer_id, title |-> est.job_title,
     description |-> IF est.job_description = "" THEN "Converted from estimate"
                     ELSE est.job_description,
     ticket_type |-> "SVC", status |-> "open", priority |-> "normal",
     created_by |-> Val(Profile).id, assigned_to |-> Val(Profile).id,
     from_estimate |-> est.id]

\* the row handleConvertToProject inserts
ProjectRow(id, est) ==
    [id |-> id, customer_id |-> est.customer_id, name |-> est.job_title,
     description |-> est.job_description, status |-> "planning",
     budget_amount |-> est.total_amount, project_manager_id |-> Val(Profile).id,
     from_estimate |-> est.id]

\* the insert of the ticket or project is answered
ConvertInsert(s, ok) ==
    /\ convertCall[s] # None /\ Val(convertCall[s]).step = "insert"
    /\ LET c == Val(convertCall[s]) IN
       IF ok
       THEN /\ IF c.kind = "ticket"
               THEN /\ tickets' = Append(tickets, TicketRow(Len(tickets) + 1, c.estimate))
                    /\ convertCall' = [convertCall EXCEPT ![s] =
                            Some([c EXCEPT !.step = "update", !.created = Some(Len(tickets) + 1)])]
                    /\ UNCHANGED projects
               ELSE /\ projects' = Append(projects, ProjectRow(Len(projects) + 1, c.estimate))
                    /\ convertCall' = [convertCall EXCEPT ![s] =
                            Some([c EXCEPT !.step = "update", !.created = Some(Len(projects) + 1)])]
                    /\ UNCHANGED tickets
            /\ NoAlert
            /\ UNCHANGED << converting >>
       ELSE /\ ConvertFailed(s)
            /\ UNCHANGED << tickets, projects >>
    /\ UNCHANGED << estimates, estimate_line_items, propVars, loading, saving, editing,
                    dataVars, catVars, loadCalls, dataCalls, saveCall, statusCalls, auxVars, ticketVars >>

\* an update that stamps the status and the date without the back-reference
ConvertUpdateDataNoReference(row, kind, created) ==
    [row EXCEPT !.status = "converted", !.conversion_date = Now]

\* the update the conversion applies to the estimate's row
ConvertUpdateData(row, kind, created) ==
    [row EXCEPT !.status = "converted",
                !.converted_to_ticket_id = IF kind = "ticket" THEN created ELSE @,
                !.converted_to_project_id = IF kind = "project" THEN created ELSE @,
                !.conversion_date = Now]

\* the update of the estimate is answered; then alert and the awaited reload
ConvertUpdate(s, ok) ==
    /\ convertCall[s] # None /\ Val(convertCall[s]).step = "update"
    /\ LET c == Val(convertCall[s]) IN
       IF ok
       THEN /\ estimates' = [estimates EXCEPT ![c.estimate.id] =
                    ConvertUpdateData(@, c.kind, c.created)]
            /\ ShowAlert(s, "Successfully converted to " \o c.kind, "update")
            /\ StartLoad(s, c.estimateId)
            /\ convertCall' = [convertCall EXCEPT ![s] = Some([c EXCEPT !.step = "load"])]
            /\ UNCHANGED converting
       ELSE /\ ConvertFailed(s)
            /\ UNCHANGED << estimates, loading >>
    /\ UNCHANGED << estimate_line_items, tickets, projects, propVars, saving, editing,
                    dataVars, catVars, loadCalls, dataCalls, saveCall, statusCalls, auxVars, ticketVars >>

\* the reload the conversion awaits is answered; then finally: setConverting(false)
ConvertLoad(s, ok) ==
    /\ convertCall[s] # None /\ Val(convertCall[s]).step = "load"
    /\ IF Val(convertCall[s]).estimateId = None
       THEN UNCHANGED << loading, dataVars >>
       ELSE FinishLoad(s, Val(Val(convertCall[s]).estimateId), ok)
    /\ converting' = [converting EXCEPT ![s] = FALSE]
    /\ convertCall' = [convertCall EXCEPT ![s] = None]
    /\ NoAlert
    /\ UNCHANGED << dbVars, propVars, saving, editing, catVars, loadCalls, dataCalls, saveCall,
                    statusCalls, auxVars, ticketVars >>

(***************************************************************************)
(* Specifications.                                                         *)
(***************************************************************************)
\* the modals of S show estimate e as loaded from the store, with the catalogs
\* loaded or not; the other modals are as constructed
Loaded(S, e, isEditing, withCatalogs) ==
    /\ estimateId = [t \in Sessions |-> IF t \in S THEN Some(e) ELSE None]
    /\ isOpen     = [t \in Sessions |-> t \in S]
    /\ loading    = [t \in Sessions |-> t \notin S]
    /\ saving     = [t \in Sessions |-> FALSE]
    /\ converting = [t \in Sessions |-> FALSE]
    /\ editing    = [t \in Sessions |-> t \in S /\ isEditing]
    /\ estimate   = [t \in Sessions |-> IF t \in S THEN Some(estimates[e]) ELSE None]
    /\ lineItems  = [t \in Sessions |-> IF t \in S THEN estimate_line_items[e] ELSE << >>]
    /\ laborRates = [t \in Sessions |->
                        IF t \in S /\ withCatalogs THEN RatesOf(LaborRateProfile) ELSE << >>]
    /\ parts      = [t \in Sessions |-> IF t \in S /\ withCatalogs THEN PartsTable ELSE << >>]
    /\ equipment  = [t \in Sessions |->
                        IF t \in S /\ withCatalogs THEN EquipmentTable ELSE << >>]
    /\ loadCalls  = [t \in Sessions |-> [x \in EstimateIds |-> 0]]
    /\ dataCalls  = [t \in Sessions |-> 0]
    /\ saveCall   = [t \in Sessions |-> None]
    /\ statusCalls = [t \in Sessions |-> << >>]
    /\ convertCall = [t \in Sessions |-> None]
    /\ lastAlert  = None
    /\ totals     = [t \in Sessions |-> calculateTotals(<< >>, None)]
    /\ edits      = 0
    /\ calls      = 0
    /\ ticketModal = TicketModalOf(None)

\* line items an estimate may hold: a charge, a part, a discount stored
\* negative, a discount stored positive, a credit
TotalsRows(id, order) ==
    { LaborRow(id, order), DiscountRow(id, order),
      StoredItem(id, order, "parts", "Bolt", 1, 30, 30),
      StoredItem(id, order, "discount", "Coupon", 1, 50, 50),
      StoredItem(id, order, "other", "Credit", 1, -50, -50) }

TotalsLists ==
    UNION { { rows \in [1..n -> UNION { TotalsRows(i, i - 1) : i \in 1..n }] :
                \A i \in 1..n : rows[i] \in TotalsRows(i, i - 1) } : n \in 0..MaxRows }

\* the totals calculation alone: any stored list and tax rate, loaded and rendered
InitTotals ==
    /\ \E rows \in TotalsLists : \E rate \in {0, 10, 20} :
          /\ estimate_line_items = [e \in EstimateIds |-> IF e = "e1" THEN rows ELSE << >>]
          /\ estimates = [e \in EstimateIds |->
                            IF e = "e1" THEN EstimateRow(e, "draft", rate, rows)
                            ELSE EstimateRow(e, "draft", 0, << >>)]
    /\ tickets = << >>
    /\ projects = << >>
    /\ Loaded({"A"}, "e1", FALSE, FALSE)

NextTotals == Render("A")

SpecTotals == InitTotals /\ [][NextTotals]_vars

\* removeLineItem alone: any loaded list in the editor, any id given
InitRemove ==
    /\ \E rows \in TotalsLists :
          /\ estimate_line_items = [e \in EstimateIds |-> IF e = "e1" THEN rows ELSE << >>]
          /\ estimates = [e \in EstimateIds |->
                            IF e = "e1" THEN EstimateRow(e, "draft", 0, rows)
                            ELSE EstimateRow(e, "draft", 0, << >>)]
    /\ tickets = << >>
    /\ projects = << >>
    /\ Loaded({"A"}, "e1", TRUE, FALSE)

NextRemove == \E id \in 1..(MaxRows + 1) : RemoveCall("A", id)

SpecRemove == InitRemove /\ [][NextRemove]_vars

\* any loaded list of up to MaxItems items in the editor, the catalogs
\* loaded or not (yet)
InitApply ==
    /\ \E rows \in { r \in TotalsLists : Len(r) <= MaxItems } :
          /\ estimate_line_items = [e \in EstimateIds |-> IF e = "e1" THEN rows ELSE << >>]
          /\ estimates = [e \in EstimateIds |->
                            IF e = "e1" THEN EstimateRow(e, "draft", 0, rows)
                            ELSE EstimateRow(e, "draft", 0, << >>)]
    /\ tickets = << >>
    /\ projects = << >>
    /\ \E withCatalogs \in BOOLEAN : Loaded({"A"}, "e1", TRUE, withCatalogs)

\* the fields the editor's inputs hand to updateLineItem, each with values
UpdateInputs ==
    { << "item_type", "parts" >>, << "item_type", "other" >>,
      << "description", "x" >>, << "description", "" >>,
      << "quantity", 0 >>, << "quantity", 3 >>,
      << "unit_price", 0 >>, << "unit_price", 50 >> }

\* updateLineItem alone: any loaded list in the editor, any id, field, value
NextUpdate ==
    \E id \in 1..(MaxItems + 1) : \E in \in UpdateInputs : UpdateCall("A", id, in[1], in[2])

SpecUpdate == InitApply /\ [][NextUpdate]_vars

\* keys and ids handed to the selections: none, known ones, an unknown one
RateKeys == {"", "standard", "after_hours", "emergency", "weekend"}
PartIds == {"", "p1", "p2", "p9"}

\* handleLaborRateSelect and handlePartSelect alone
NextSelect ==
    \E id \in 1..(MaxItems + 1) :
        \/ \E rateKey \in RateKeys : LaborRateCall("A", id, rateKey)
        \/ \E partId \in PartIds : PartCall("A", id, partId)

SpecSelect == InitApply /\ [][NextSelect]_vars

(***************************************************************************)
(* C1.  The totals calculation.                                            *)
(***************************************************************************)
\* the sum of f over the finite set S
RECURSIVE SumOf(_, _)
SumOf(f, S) ==
    IF S = {} THEN 0
    ELSE LET x == CHOOSE y \in S : TRUE IN f[x] + SumOf(f, S \ {x})

\* the totals as C1 states them, for the list items and the tax rate rate
StatedTotals(items, rate) ==
    LET charges   == { i \in DOMAIN items : items[i].item_type # "discount" }
        discounts == { i \in DOMAIN items : items[i].item_type = "discount" }
        subtotal  == SumOf([i \in DOMAIN items |-> items[i].line_total], charges)
        discount  == SumOf([i \in DOMAIN items |-> Abs(items[i].line_total)], discounts)
        taxAmount == ((subtotal - discount) * rate) \div 100
    IN  [subtotal |-> subtotal, discount |-> discount, taxAmount |-> taxAmount,
         total |-> subtotal - discount + taxAmount]

\* the example of C1: two hours of labor at 100 and a discount of line_total -20
ExampleItems == << LaborRow(1, 0), DiscountRow(2, 1) >>

\* C1: every render computes, for the line items and the tax rate shown,
\* subtotal = the sum of line_total over the items that are no discount,
\* discount = the sum of |line_total| over the discount items, taxAmount =
\* (subtotal - discount) * taxRate / 100 and total = subtotal - discount +
\* taxAmount; the example list at tax rate 10 gives 200, 20, 18 and 198.
C1_TotalsAsStated ==
    [][/\ totals'["A"] = StatedTotals(lineItems["A"], Val(estimate["A"]).tax_rate)
       /\ (lineItems["A"] = ExampleItems /\ Val(estimate["A"]).tax_rate = 10)
            => totals'["A"] = [subtotal |-> 200, discount |-> 20, taxAmount |-> 18,
                               total |-> 198]]_vars

\* the example list has been rendered at tax rate 10, with the totals of C1
C1_ExampleRendered ==
    /\ lineItems["A"] = ExampleItems
    /\ Val(estimate["A"]).tax_rate = 10
    /\ totals["A"] = [subtotal |-> 200, discount |-> 20, taxAmount |-> 18, total |-> 198]

\* the editor alone: an estimate loaded into the modal in editing mode
InitEditor ==
    /\ InitStore
    /\ \E withCatalogs \in BOOLEAN : Loaded({"A"}, "e1", TRUE, withCatalogs)

NextEditor ==
    \E id \in 1..(MaxItems + 1) :
        \/ \E type \in {"labor", "parts", "equipment", "other"} : TypeSelect("A", id, type)
        \/ \E text \in {" ", "x"} : DescriptionInput("A", id, text)
        \/ \E typed \in {None, Some(2)} : QuantityInput("A", id, typed)
        \/ \E typed \in {None, Some(50)} : UnitPriceInput("A", id, typed)
        \/ \E key \in {"", "standard", "after_hours", "emergency"} : LaborRateSelect("A", id, key)
        \/ \E partId \in {"", "p1", "p2"} : PartSelect("A", id, partId)
        \/ \E equipmentId \in {"", "q1"} : EquipmentSelect("A", id, equipmentId)
        \/ AddClick("A")
        \/ RemoveClick("A", id)

SpecEditor == InitEditor /\ [][NextEditor]_vars

\* addLineItem on any loaded list and on lists items were removed from
NextAdd ==
    \/ AddCall("A")
    \/ \E id \in 1..(MaxItems + 1) : RemoveCall("A", id)

SpecAdd == InitApply /\ [][NextAdd]_vars

\* ids handed to the equipment selection: none, a known one, an unknown one
EquipmentIds == {"", "q1", "q9"}

\* handleEquipmentSelect on any loaded list, and one operation of the editor
\* after it
NextEquipment ==
    \/ \E id \in 1..(MaxItems + 1) : \E equipmentId \in EquipmentIds :
            EquipmentCall("A", id, equipmentId)
    \/ edits = MaxApply /\ NextEditor

SpecEquipment == InitApply /\ [][NextEquipment]_vars

(***************************************************************************)
(* C3.  The line totals of the editor.                                     *)
(***************************************************************************)
\* C3: in every state of the editor, reached from a loaded list by any
\* sequence of its operations, each line item whose type is not discount
\* has line_total = quantity * unit_price.
C3_LineTotalIsProduct ==
    \A i \in DOMAIN lineItems["A"] :
        lineItems["A"][i].item_type # "discount"
            => lineItems["A"][i].line_total
                 = lineItems["A"][i].quantity * lineItems["A"][i].unit_price

\* the answers of the store to the calls in flight of modal s
Answers(s) ==
    \E ok \in BOOLEAN :
        \/ \E e \in EstimateIds : LoadDone(s, e, ok)
        \/ SaveUpdate(s, ok)
        \/ SaveDelete(s, ok)
        \/ SaveInsert(s, ok)
        \/ SaveLoad(s, ok)
        \/ \E i \in DOMAIN statusCalls[s] : StatusUpdate(s, i, ok)
        \/ \E i \in DOMAIN statusCalls[s] : StatusLoad(s, i, ok)
        \/ ConvertInsert(s, ok)
        \/ ConvertUpdate(s, ok)
        \/ ConvertLoad(s, ok)

\* the buttons of modal s outside the editor
Buttons(s) ==
    \/ EditClick(s)
    \/ SaveClick(s)
    \/ handleCancel(s)
    \/ \E newStatus \in {"sent", "accepted", "rejected"} : StatusClick(s, newStatus)
    \/ \E kind \in {"ticket", "project"} : \E confirmed \in BOOLEAN :
            ConvertClick(s, kind, confirmed)

\* one modal on estimate e1: a new line item, its price, its description or
\* its type, a labor rate, the title and the tax rate edited, then saved
Edits(s) ==
    \/ AddClick(s)
    \/ \E id \in 1..(MaxItems + 1) :
        \/ RemoveClick(s, id)
        \/ UnitPriceInput(s, id, Some(50))
        \/ \E text \in {"x", " "} : DescriptionInput(s, id, text)
        \/ TypeSelect(s, id, "other")
        \/ LaborRateSelect(s, id, "standard")
    \/ JobTitleInput(s, "Renamed")
    \/ TaxRateInput(s, Some(20))

InitOpen == InitStore /\ Loaded({"A"}, "e1", FALSE, TRUE)

Next ==
    \/ Buttons("A")
    \/ Edits("A")
    \/ \E field \in {"job_description", "notes"} : TextInput("A", field, "text")
    \/ Answers("A")

Spec == InitOpen /\ [][Next]_vars

\* one modal from its construction: opened on an estimate, closed, opened
\* again, the loads answered in any order
NextOpen ==
    \/ \E e \in EstimateIds : Open("A", e)
    \/ Close("A")
    \/ \E e \in EstimateIds : \E ok \in BOOLEAN : LoadDone("A", e, ok)
    \/ \E ratesOk, partsOk, equipOk \in BOOLEAN : LoadDataDone("A", ratesOk, partsOk, equipOk)

SpecOpen == Init /\ [][NextOpen]_vars

\* the status changes and the conversions of two modals showing estimate e1
InitFlow == InitStore /\ Loaded(Sessions, "e1", FALSE, TRUE)

NextFlow ==
    \E s \in Sessions : \E ok \in BOOLEAN :
        \/ \E newStatus \in {"sent", "accepted", "rejected"} : StatusClick(s, newStatus)
        \/ \E kind \in {"ticket", "project"} : \E confirmed \in BOOLEAN :
                ConvertClick(s, kind, confirmed)
        \/ \E i \in DOMAIN statusCalls[s] : StatusUpdate(s, i, ok)
        \/ \E i \in DOMAIN statusCalls[s] : StatusLoad(s, i, ok)
        \/ ConvertInsert(s, ok)
        \/ ConvertUpdate(s, ok)
        \/ ConvertLoad(s, ok)

SpecFlow == InitFlow /\ [][NextFlow]_vars

(***************************************************************************)
(* C4 - C8.  Status changes and conversions.                               *)
(***************************************************************************)
\* the tickets and the projects created by conversions of estimate e
TicketsOf(e) == { i \in DOMAIN tickets : tickets[i].from_estimate = e }
ProjectsOf(e) == { i \in DOMAIN projects : projects[i].from_estimate = e }

\* C4: conversions run only on an accepted estimate that is not yet
\* converted, so no estimate ever has more than one dependent ticket or
\* project.
C4_AtMostOneDependent ==
    \A e \in EstimateIds : Cardinality(TicketsOf(e)) + Cardinality(ProjectsOf(e)) <= 1

\* the source statuses a change to status st may start from
LegalSources(st) ==
    IF st = "sent" THEN {"draft"}
    ELSE IF st = "accepted" \/ st = "rejected" THEN {"sent", "viewed"}
    ELSE {}

\* the update of a status change in flight of modal s has just been applied
StatusApplied(s, i) ==
    /\ i \in DOMAIN statusCalls[s]
    /\ statusCalls[s][i].step = "update"
    /\ statusCalls'[s] = [statusCalls[s] EXCEPT ![i].step = "load"]

\* C5: every status change handleStatusChange writes starts from a legal
\* stored status: sent from draft only, accepted or rejected from sent or
\* viewed only.
C5_LegalSourceStatus ==
    [][\A s \in Sessions : \A i \in 1..MaxCalls :
          StatusApplied(s, i)
            => estimates[statusCalls[s][i].id].status
                 \in LegalSources(statusCalls[s][i].newStatus)]_vars

\* C6: in every state an estimate whose status is converted bears a
\* conversion date and a back-reference, and each back-reference it bears
\* is the id of an existing ticket or project created from it.
C6_ConvertedReferencesExist ==
    \A e \in EstimateIds :
        estimates[e].status = "converted"
            => /\ estimates[e].conversion_date # None
               /\ estimates[e].converted_to_ticket_id # None
                    \/ estimates[e].converted_to_project_id # None
               /\ estimates[e].converted_to_ticket_id # None
                    => Val(estimates[e].converted_to_ticket_id) \in TicketsOf(e)
               /\ estimates[e].converted_to_project_id # None
                    => Val(estimates[e].converted_to_project_id) \in ProjectsOf(e)

\* an estimate is stored as converted, referring to the ticket made from it
C6_ConvertedToTicket ==
    /\ estimates["e1"].status = "converted"
    /\ estimates["e1"].converted_to_ticket_id # None
    /\ Val(estimates["e1"].converted_to_ticket_id) \in TicketsOf("e1")

\* the update of the conversion in flight of modal s has just failed
ConvertUpdateFailed(s) ==
    /\ convertCall[s] # None
    /\ Val(convertCall[s]).step = "update"
    /\ convertCall'[s] = None

\* C7: when the insert of a conversion succeeded and the update of the
\* estimate fails, the created ticket or project stays in the store, the
\* estimate row is unchanged (no status, no back-reference written), and
\* the modal is no longer converting: where it still shows the estimate it
\* ran the conversion on, its convert buttons are rendered again.
C7_NoCompensation ==
    [][\A s \in Sessions :
          ConvertUpdateFailed(s)
            => /\ tickets' = tickets /\ projects' = projects
               /\ IF Val(convertCall[s]).kind = "ticket"
                  THEN Val(Val(convertCall[s]).created) \in TicketsOf(Val(convertCall[s]).estimate.id)
                  ELSE Val(Val(convertCall[s]).created) \in ProjectsOf(Val(convertCall[s]).estimate.id)
               /\ estimates' = estimates
               /\ ~converting'[s]
               /\ (FooterShown(s) /\ estimate[s] = Some(Val(convertCall[s]).estimate))
                    => ConvertShown(s)']_vars

\* after a failed update a conversion was run again: the estimate is still
\* accepted, without back-reference, and two records were created from it
C7_SecondRecordCreated ==
    /\ estimates["e1"].status = "accepted"
    /\ estimates["e1"].converted_to_ticket_id = None
    /\ estimates["e1"].converted_to_project_id = None
    /\ Cardinality(TicketsOf("e1")) + Cardinality(ProjectsOf("e1")) >= 2

\* C8: once the stored status of an estimate is converted, no step changes it.
C8_ConvertedIsFinal ==
    [][\A e \in EstimateIds :
          estimates[e].status = "converted" => estimates'[e].status = "converted"]_vars

\* one modal on estimate e1: the editor, Save and Cancel
NextSave ==
    \E ok \in BOOLEAN :
        \/ EditClick("A")
        \/ Edits("A")
        \/ SaveClick("A")
        \/ handleCancel("A")
        \/ SaveUpdate("A", ok)
        \/ SaveDelete("A", ok)
        \/ SaveInsert("A", ok)
        \/ SaveLoad("A", ok)
        \/ LoadDone("A", "e1", ok)

InitSave == InitStoreOf({"draft"}) /\ Loaded({"A"}, "e1", FALSE, TRUE)

SpecSave == InitSave /\ [][NextSave]_vars

(***************************************************************************)
(* C2.  The stored totals after a save.                                    *)
(***************************************************************************)
\* the totals the header row of estimate e holds
StoredTotals(e) ==
    [subtotal |-> estimates[e].subtotal, taxAmount |-> estimates[e].tax_amount,
     total |-> estimates[e].total_amount]

\* the totals calculation applied to the stored line items of estimate e with
\* the stored tax rate
DerivedTotals(e) ==
    LET t == calculateTotals(estimate_line_items[e], Some(estimates[e]))
    IN  [subtotal |-> t.subtotal, taxAmount |-> t.taxAmount, total |-> t.total]

\* C2: when a handleSave has made its writes without error (only its
\* reload is left), the subtotal, tax_amount and total_amount stored on the
\* header equal the totals calculation applied to the stored line items
\* with the stored tax_rate.
C2_StoredTotalsDerivable ==
    \A s \in Sessions :
        (saveCall[s] # None /\ Val(saveCall[s]).step = "load")
            => StoredTotals(Val(saveCall[s]).estimate.id)
                 = DerivedTotals(Val(saveCall[s]).estimate.id)

(***************************************************************************)
(* C9, C10.  Failures of the header update and of the delete.              *)
(***************************************************************************)
\* the columns of a header row that handleSave writes
HeaderFields(row) ==
    [job_title |-> row.job_title, job_description |-> row.job_description,
     site_location |-> row.site_location, tax_rate |-> row.tax_rate,
     subtotal |-> row.subtotal, tax_amount |-> row.tax_amount,
     total_amount |-> row.total_amount, notes |-> row.notes,
     terms_conditions |-> row.terms_conditions]

\* the values the save c writes into those columns
WrittenHeader(c) ==
    [HeaderFields(c.estimate) EXCEPT !.subtotal = c.totals.subtotal,
                                     !.tax_amount = c.totals.taxAmount,
                                     !.total_amount = c.totals.total]

\* the save of modal s, waiting at step, takes its next step
SaveStepsFrom(s, step) ==
    /\ saveCall[s] # None
    /\ Val(saveCall[s]).step = step
    /\ saveCall'[s] # saveCall[s]

\* the save of modal s ends with the failure alert raised at step
SaveAbortsAt(s, step) ==
    /\ saveCall'[s] = None
    /\ lastAlert' = Some([modal |-> s, text |-> "Failed to save estimate. Please try again.",
                          step |-> step])
    /\ ~saving'[s]

\* C9: the answer to the header update either fails, and then the save ends
\* with the failure alert and the store (header, line items) unchanged, no
\* delete and no insert being issued; or it succeeds, and only then, with
\* the header written, the save goes on to its delete.  Line items change
\* only by the answer to a delete or to an insert.
C9_HeaderFailureAborts ==
    [][/\ \A s \in Sessions :
            SaveStepsFrom(s, "update")
              => \/ SaveAbortsAt(s, "update") /\ dbVars' = dbVars
                 \/ /\ saveCall'[s] # None
                    /\ Val(saveCall'[s]).step = "delete"
                    /\ HeaderFields(estimates'[Val(saveCall[s]).estimate.id])
                         = WrittenHeader(Val(saveCall[s]))
                    /\ estimate_line_items' = estimate_line_items
       /\ estimate_line_items' # estimate_line_items
            => \E s \in Sessions : SaveStepsFrom(s, "delete") \/ SaveStepsFrom(s, "insert")]_vars

\* a save of an edited list failed at its header update: the stored line
\* items are still those of before, not those of the editor
C9_AbortedAtUpdate ==
    /\ lastAlert = Some([modal |-> "A", text |-> "Failed to save estimate. Please try again.",
                         step |-> "update"])
    /\ saveCall["A"] = None
    /\ Len(lineItems["A"]) # Len(estimate_line_items["e1"])

\* C10 as amended: the answer to the delete either fails, and then the save
\* ends with the failure alert, no insert being issued, the stored line
\* items unchanged (those of before the save) and the header holding the
\* values the save has written; or it succeeds, and the line items of the
\* estimate are gone.
C10_NewHeaderStaleItems ==
    [][\A s \in Sessions :
          SaveStepsFrom(s, "delete")
            => \/ /\ SaveAbortsAt(s, "delete")
                  /\ dbVars' = dbVars
                  /\ HeaderFields(estimates'[Val(saveCall[s]).estimate.id])
                       = WrittenHeader(Val(saveCall[s]))
               \/ /\ saveCall'[s] # None
                  /\ Val(saveCall'[s]).step \in {"insert", "load"}
                  /\ estimate_line_items'[Val(saveCall[s]).estimate.id] = << >>]_vars

\* a save that renamed the estimate failed at its delete: the header holds
\* the new title, the line items are those of before the save
C10_AbortedAtDelete ==
    /\ lastAlert = Some([modal |-> "A", text |-> "Failed to save estimate. Please try again.",
                         step |-> "delete"])
    /\ estimates["e1"].job_title = "Renamed"
    /\ estimate_line_items["e1"] # << >>

\* C10 as stated: when the delete fails after the header update succeeded,
\* the estimate is left with its old header (the one before the save).
C10_OldHeaderStaleItems ==
    [][\A s \in Sessions :
          (SaveStepsFrom(s, "delete") /\ SaveAbortsAt(s, "delete"))
            => /\ estimate_line_items' = estimate_line_items
               /\ estimates'[Val(saveCall[s]).estimate.id] = Val(Val(saveCall[s]).before)]_vars

(***************************************************************************)
(* C11.  Failure of the insert.                                            *)
(***************************************************************************)
\* C11: the answer to the insert either fails, and then the save ends with
\* the failure alert, the store unchanged by the step: the estimate has no
\* stored line items (the delete is not undone) and its header holds the
\* values the save has written; or it succeeds, rows are stored and the
\* save goes on to its reload.
C11_InsertFailureLeavesNoItems ==
    [][\A s \in Sessions :
          SaveStepsFrom(s, "insert")
            => \/ /\ SaveAbortsAt(s, "insert")
                  /\ dbVars' = dbVars
                  /\ estimate_line_items'[Val(saveCall[s]).estimate.id] = << >>
                  /\ HeaderFields(estimates'[Val(saveCall[s]).estimate.id])
                       = WrittenHeader(Val(saveCall[s]))
               \/ /\ saveCall'[s] # None
                  /\ Val(saveCall'[s]).step = "load"
                  /\ estimate_line_items'[Val(saveCall[s]).estimate.id] # << >>]_vars

\* a save that changed the totals failed at its insert: no line item is
\* stored, the header holds the new subtotal
C11_AbortedAtInsert ==
    /\ lastAlert = Some([modal |-> "A", text |-> "Failed to save estimate. Please try again.",
                         step |-> "insert"])
    /\ estimate_line_items["e1"] = << >>
    /\ estimates["e1"].subtotal # 200

(***************************************************************************)
(* C12.  A save replaces the line items of its estimate.                   *)
(***************************************************************************)
\* what a line item says, apart from its id and its position
ItemData(item) ==
    [item_type |-> item.item_type, description |-> item.description,
     quantity |-> item.quantity, unit_price |-> item.unit_price,
     line_total |-> item.line_total, part_id |-> item.part_id,
     equipment_id |-> item.equipment_id]

\* the stored rows are, one for one and in order, the items of the list
\* items that have a non-blank description
StoresTheNonBlank(stored, items) ==
    LET kept == SelectSeq(items, NonBlank)
    IN  /\ Len(stored) = Len(kept)
        /\ \A k \in DOMAIN stored : ItemData(stored[k]) = ItemData(kept[k])

\* the save of modal s has made its writes without error: its reload is left
SaveWritten(s) == saveCall[s] # None /\ Val(saveCall[s]).step = "load"

\* C12: when a handleSave has made its writes without error, the line
\* items stored for its estimate are exactly the in-memory items with a
\* non-blank description (no row of before the save remains); and the
\* line items of an estimate change only by the answer to the delete or to
\* the insert of a save of that estimate.
C12_SaveReplacesItems ==
    [][/\ \A s \in Sessions :
            SaveWritten(s)'
              => StoresTheNonBlank(estimate_line_items'[Val(saveCall'[s]).estimate.id],
                                   Val(saveCall'[s]).lineItems)
       /\ \A e \in EstimateIds :
            estimate_line_items'[e] # estimate_line_items[e]
              => \E s \in Sessions :
                    /\ SaveStepsFrom(s, "delete") \/ SaveStepsFrom(s, "insert")
                    /\ Val(saveCall[s]).estimate.id = e]_vars

\* a save of an edited list has made its writes: what the estimate stores is
\* no longer what it stored when loaded, the other estimate keeps its row
C12_ItemsReplaced ==
    /\ SaveWritten("A")
    /\ estimate_line_items["e1"] # << >>
    /\ \A k \in DOMAIN estimate_line_items["e1"] :
          ItemData(estimate_line_items["e1"][k]) # ItemData(LaborRow(1, 0))
    /\ estimate_line_items["e2"] = OtherRows

(***************************************************************************)
(* C13.  The rows a save inserts.                                          *)
(***************************************************************************)
\* the insert of the save of modal s has just succeeded
SaveInserted(s) ==
    /\ SaveStepsFrom(s, "insert")
    /\ saveCall'[s] # None
    /\ Val(saveCall'[s]).step = "load"

\* C13: the rows a successful insert of handleSave stores are the in-memory
\* items whose description is neither empty nor whitespace-only, in their
\* in-memory order, none of them blank, with line_order 0, 1, ..., n-1
\* whatever line_order the items hold in memory.
C13_InsertsNonBlankRenumbered ==
    [][\A s \in Sessions :
          SaveInserted(s)
            => LET rows  == estimate_line_items'[Val(saveCall[s]).estimate.id]
                   items == Val(saveCall[s]).lineItems
               IN  /\ StoresTheNonBlank(rows, items)
                   /\ \A k \in DOMAIN rows :
                        /\ rows[k].line_order = k - 1
                        /\ rows[k].description \notin {"", " "}
                   /\ Len(rows) = Cardinality({ i \in DOMAIN items :
                                                  items[i].description \notin {"", " "} })]_vars

\* a save has stored a list whose first item had a whitespace-only
\* description: the item is not stored, and the item after it, of
\* line_order 1 in memory, is stored with line_order 0
C13_RenumberedAfterBlank ==
    /\ SaveWritten("A")
    /\ Len(Val(saveCall["A"]).lineItems) = 2
    /\ Val(saveCall["A"]).lineItems[1].description = " "
    /\ Val(saveCall["A"]).lineItems[2].line_order = 1
    /\ Len(estimate_line_items["e1"]) = 1
    /\ estimate_line_items["e1"][1].line_order = 0
    /\ ItemData(estimate_line_items["e1"][1]) = ItemData(Val(saveCall["A"]).lineItems[2])

(***************************************************************************)
(* C14.  A save in which every description is blank.                       *)
(***************************************************************************)
\* the delete of the save of modal s is answered with success and the save
\* has no row to insert
AllBlankSaveWritten(s) ==
    /\ SaveStepsFrom(s, "delete")
    /\ lineItemsToInsert(Val(saveCall[s]).lineItems) = << >>
    /\ estimate_line_items'[Val(saveCall[s]).estimate.id] = << >>
    /\ ~SaveAbortsAt(s, "delete")

\* C14: a save in which every line item has a blank description stores zero
\* line items and is flagged to the user: it shows an alert or keeps the
\* editor in edit mode, instead of leaving edit mode and reloading as a
\* normal save does.
C14_AllBlankSaveFlagged ==
    [][\A s \in Sessions :
          AllBlankSaveWritten(s)
            => \/ lastAlert' # None
               \/ editing'[s]]_vars

(***************************************************************************)
(* C15.  removeLineItem.                                                   *)
(***************************************************************************)
\* items without its element at position p
WithoutAt(items, p) == SubSeq(items, 1, p - 1) \o SubSeq(items, p + 1, Len(items))

\* C15: removeLineItem never takes a list of one or more items below one
\* item; given a list of exactly one item it leaves the list as it is; given
\* a longer list it removes the item with the given id, and only that item,
\* the other items keeping their order (nothing is removed when no item has
\* the id).
C15_RemoveKeepsOne ==
    [][\A id \in 1..(MaxRows + 1) :
          RemoveCall("A", id)
            => LET before == lineItems["A"]
                   after  == lineItems'["A"]
                   Hits   == { p \in DOMAIN before : before[p].id = id }
               IN  /\ Len(before) >= 1 => Len(after) >= 1
                   /\ Len(before) = 1 => after = before
                   /\ Len(before) > 1
                        => IF Hits = {} THEN after = before
                           ELSE \E p \in Hits : after = WithoutAt(before, p)]_vars

\* a list loaded with two items was cut to one item by a first removal and
\* left as it was by a second one
C15_LastItemKept ==
    /\ edits = 2
    /\ Len(estimate_line_items["e1"]) = 2
    /\ Len(lineItems["A"]) = 1
    /\ editing["A"]

(***************************************************************************)
(* C16.  The list held while editing.                                      *)
(***************************************************************************)
\* C16: whenever a modal is in editing mode its in-memory list of line items
\* holds at least one item.
C16_EditingHoldsAnItem ==
    \A s \in Sessions : editing[s] => Len(lineItems[s]) >= 1

(***************************************************************************)
(* C17.  Editor mutations are local.                                       *)
(***************************************************************************)
\* C17: a mutation in the editor (of a line item, of the list, of a header
\* field) changes in-memory state only: it leaves the stored estimates, their
\* stored line items, tickets and projects as they are and starts no backend
\* call; and the store changes only while a save is in flight.
C17_EditsAreLocal ==
    [][/\ edits' # edits => dbVars' = dbVars /\ callVars' = callVars
       /\ dbVars' # dbVars => \E s \in Sessions : saveCall[s] # None]_vars

\* after two mutations the modal holds a list and a header that differ from
\* the stored ones
C17_EditedNotStored ==
    /\ edits = 2
    /\ editing["A"]
    /\ lineItems["A"] # estimate_line_items["e1"]
    /\ Val(estimate["A"]) # estimates["e1"]
    /\ estimate_line_items["e1"] = << LaborRow(1, 0), DiscountRow(2, 1) >>

(***************************************************************************)
(* C18.  Backend calls in flight.                                          *)
(***************************************************************************)
\* the backend calls of modal s that have been issued and not yet answered
InFlight(s) ==
    loadCalls[s]["e1"] + loadCalls[s]["e2"] + dataCalls[s] + Len(statusCalls[s])
      + (IF saveCall[s] = None THEN 0 ELSE 1) + (IF convertCall[s] = None THEN 0 ELSE 1)

\* C18: a modal never has two backend calls (load, save, status change,
\* conversion) in flight at once.
C18_OneCallInFlight ==
    \A s \in Sessions : InFlight(s) <= 1

(***************************************************************************)
(* C19.  What a conversion seeds the new record with.                      *)
(***************************************************************************)
\* row, created from estimate est, carries the estimate's customer, job
\* title (in its field title), job description and total (in a field for an
\* amount)
SeededFrom(row, title, est) ==
    /\ row.customer_id = est.customer_id
    /\ row[title] = est.job_title
    /\ row.description = est.job_description
    /\ \E f \in DOMAIN row \cap {"total_amount", "budget_amount", "estimated_cost"} :
          row[f] = est.total_amount

\* every project created by a conversion is seeded from its estimate
ProjectsSeeded ==
    \A i \in DOMAIN projects :
        SeededFrom(projects[i], "name", estimates[projects[i].from_estimate])

\* every ticket created by a conversion is seeded from its estimate
TicketsSeeded ==
    \A i \in DOMAIN tickets :
        SeededFrom(tickets[i], "title", estimates[tickets[i].from_estimate])

\* C19: every ticket and every project created by a conversion carries the
\* customer_id, job_title, job_description and total_amount of its estimate.
C19_RecordSeededFromEstimate == TicketsSeeded /\ ProjectsSeeded

(***************************************************************************)
(* C20.  Failures of the backend calls of a handler.                       *)
(***************************************************************************)
\* what the claim says of a step in which a backend call of the save of
\* modal s failed: an alert in that modal, no write, the save over with the
\* flag saving cleared
FailureHandled(s) ==
    /\ lastAlert' # None
    /\ Val(lastAlert').modal = s
    /\ dbVars' = dbVars
    /\ saveCall'[s] = None
    /\ ~saving'[s]

\* a write of the save of modal s (header update, delete, insert) fails
SaveWriteFails(s) ==
    SaveUpdate(s, FALSE) \/ SaveDelete(s, FALSE) \/ SaveInsert(s, FALSE)

\* the failure of a write of handleSave is alerted, nothing more is written,
\* the flag is cleared
WriteFailureHandled ==
    [][\A s \in Sessions : SaveWriteFails(s) => FailureHandled(s)]_vars

\* C20: when a backend call of handleSave fails (the header update, the
\* delete, the insert, or the reload it awaits), the handler shows an alert,
\* writes nothing more, and its flag saving is false when it ends.
C20_FailureAlerted ==
    [][\A s \in Sessions :
          (SaveWriteFails(s) \/ SaveLoad(s, FALSE)) => FailureHandled(s)]_vars

(***************************************************************************)
(* C21.  updateLineItem.                                                   *)
(***************************************************************************)
\* the fields of a line item
ItemFields ==
    {"id", "line_order", "item_type", "description", "quantity", "unit_price", "line_total",
     "part_id", "equipment_id", "labor_hours", "labor_rate"}

\* C21: updateLineItem(id, field, value) keeps the list's length, leaves
\* every item of another id as it is (so an id that matches no item leaves
\* the list as it is), and on the item of that id sets the field to the
\* value, sets line_total to quantity * unit_price when the field is
\* quantity or unit_price, leaves line_total as it is for any other field,
\* and leaves every other field as it is.
C21_UpdateSetsOneField ==
    [][\A id \in 1..(MaxItems + 1) : \A in \in UpdateInputs :
          UpdateCall("A", id, in[1], in[2])
            => LET before == lineItems["A"]
                   after  == lineItems'["A"]
               IN  /\ Len(after) = Len(before)
                   /\ (\A i \in DOMAIN before : before[i].id # id) => after = before
                   /\ \A i \in DOMAIN before :
                        IF before[i].id # id THEN after[i] = before[i]
                        ELSE /\ after[i][in[1]] = in[2]
                             /\ after[i].line_total =
                                  IF in[1] \in {"quantity", "unit_price"}
                                  THEN after[i].quantity * after[i].unit_price
                                  ELSE before[i].line_total
                             /\ \A f \in ItemFields \ {in[1], "line_total"} :
                                  after[i][f] = before[i][f]]_vars

\* the quantity of the first of two loaded items was set to 3: its line
\* total is three times its unit price, the second item is as it was stored
C21_QuantityRecomputed ==
    /\ edits = 1
    /\ Len(lineItems["A"]) = 2
    /\ estimate_line_items["e1"][1].quantity # 3
    /\ lineItems["A"][1].quantity = 3
    /\ lineItems["A"][1].line_total = 3 * estimate_line_items["e1"][1].unit_price
    /\ lineItems["A"][1].line_total # estimate_line_items["e1"][1].line_total
    /\ lineItems["A"][2] = estimate_line_items["e1"][2]

(***************************************************************************)
(* C22.  handleLaborRateSelect and handlePartSelect.                       *)
(***************************************************************************)
\* the elements of a sequence
Range(seq) == { seq[i] : i \in DOMAIN seq }

\* after is before with the item of the given id changed as Changed says
\* (of the old and the new item), items of another id being as they were
OnlyItemChanged(before, after, id, Changed(_, _)) ==
    /\ Len(after) = Len(before)
    /\ \A i \in DOMAIN before :
          IF before[i].id = id THEN Changed(before[i], after[i]) ELSE after[i] = before[i]

\* C22: handleLaborRateSelect sets description, unit_price and labor_rate of
\* the item from the rate of the given key and its line_total to quantity *
\* rate; handlePartSelect sets description and unit_price from the part (its
\* cost, 0 when it has none) and line_total to quantity * unit_price; both
\* leave the quantity, the type and every other item as they are, and leave
\* the whole list as it is when the key or id is not in the loaded catalog.
C22_SelectPricesTheItem ==
    [][\A id \in 1..(MaxItems + 1) :
          /\ \A rateKey \in RateKeys :
                LaborRateCall("A", id, rateKey)
                  => LET found == { r \in Range(laborRates["A"]) : r.key = rateKey }
                         ByRate(old, new) ==
                            \E r \in found :
                               /\ new.description = r.name
                               /\ new.unit_price = r.rate
                               /\ new.labor_rate = Some(r.rate)
                               /\ new.line_total = old.quantity * r.rate
                               /\ \A f \in ItemFields \ {"description", "unit_price",
                                                           "labor_rate", "line_total"} :
                                     new[f] = old[f]
                     IN  IF found = {} THEN lineItems'["A"] = lineItems["A"]
                         ELSE OnlyItemChanged(lineItems["A"], lineItems'["A"], id, ByRate)
          /\ \A partId \in PartIds :
                PartCall("A", id, partId)
                  => LET found == { r \in Range(parts["A"]) : r.id = partId }
                         ByPart(old, new) ==
                            \E r \in found :
                               /\ new.description = r.name
                               /\ new.unit_price = IF r.cost = None THEN 0 ELSE Val(r.cost)
                               /\ new.line_total = old.quantity * new.unit_price
                               /\ new.part_id = Some(partId)
                               /\ \A f \in ItemFields \ {"description", "unit_price",
                                                           "part_id", "line_total"} :
                                     new[f] = old[f]
                     IN  IF found = {} THEN lineItems'["A"] = lineItems["A"]
                         ELSE OnlyItemChanged(lineItems["A"], lineItems'["A"], id, ByPart)]_vars

\* the emergency rate was selected for a stored labor item of two hours at
\* the standard rate: its price is 200, its total 400, its hours still 2
C22_EmergencyRateSelected ==
    /\ edits = 1
    /\ Len(estimate_line_items["e1"]) = 2
    /\ Len(lineItems["A"]) = 2
    /\ estimate_line_items["e1"][1] = LaborRow(1, 0)
    /\ lineItems["A"][1] = [LaborRow(1, 0) EXCEPT !.description = "Emergency Rate",
                                                   !.unit_price = 200,
                                                   !.labor_rate = Some(200),
                                                   !.line_total = 400]
    /\ lineItems["A"][2] = estimate_line_items["e1"][2]

(***************************************************************************)
(* C23.  handleEquipmentSelect.                                            *)
(***************************************************************************)
\* the item of the given id in a list, in a set of at most one element
ItemsOfId(items, id) == { r \in Range(items) : r.id = id }

\* the list without the items of the given id
WithoutId(items, id) ==
    LET Other(item) == item.id # id
    IN  SelectSeq(items, Other)

\* C23: handleEquipmentSelect on a known equipment id overwrites the item's
\* description and sets its unit_price and line_total to zero whatever its
\* quantity and price were, other fields and other items being as before;
\* the subtotal is then that of the list without the item; and an item whose
\* line_total is zero keeps it zero in every step that leaves its quantity
\* and its unit_price as they are.
C23_EquipmentPricedZero ==
    [][/\ \A id \in 1..(MaxItems + 1) : \A equipmentId \in EquipmentIds :
            (/\ EquipmentCall("A", id, equipmentId)
             /\ \E q \in Range(equipment["A"]) : q.id = equipmentId)
              => LET Zeroed(old, new) ==
                        /\ new.unit_price = 0
                        /\ new.line_total = 0
                        /\ new.equipment_id = Some(equipmentId)
                        /\ \E q \in Range(equipment["A"]) :
                              /\ q.id = equipmentId
                              /\ new.description = EquipLabel(q)
                        /\ \A f \in ItemFields \ {"description", "unit_price",
                                                    "equipment_id", "line_total"} :
                              new[f] = old[f]
                 IN  /\ OnlyItemChanged(lineItems["A"], lineItems'["A"], id, Zeroed)
                     /\ calculateTotals(lineItems'["A"], estimate'["A"]).subtotal
                          = calculateTotals(WithoutId(lineItems'["A"], id),
                                            estimate'["A"]).subtotal
       /\ \A id \in 1..(MaxItems + 1) :
            \A old \in ItemsOfId(lineItems["A"], id) :
            \A new \in ItemsOfId(lineItems'["A"], id) :
                (/\ old.line_total = 0
                 /\ new.quantity = old.quantity
                 /\ new.unit_price = old.unit_price)
                  => new.line_total = 0]_vars

\* equipment was selected for a stored labor item of two hours at 100, and
\* the item's type was changed after that: its total is still zero
C23_EquipmentThenTypeChanged ==
    /\ edits = 2
    /\ Len(estimate_line_items["e1"]) >= 1
    /\ Len(lineItems["A"]) >= 1
    /\ estimate_line_items["e1"][1] = LaborRow(1, 0)
    /\ lineItems["A"][1] = [LaborRow(1, 0) EXCEPT !.description = "Acme X1",
                                                   !.equipment_id = Some("q1"),
                                                   !.item_type = "other",
                                                   !.unit_price = 0,
                                                   !.line_total = 0]

(***************************************************************************)
(* C24.  addLineItem.                                                      *)
(***************************************************************************)
\* C24: addLineItem appends exactly one item at the end of the list, with an
\* id no item of the list carries, of type labor, quantity 1, unit_price 0,
\* line_total 0, and leaves the items the list had, and their order, as
\* they are.
C24_AddAppendsFreshItem ==
    [][AddCall("A")
         => LET before == lineItems["A"]
                after  == lineItems'["A"]
                new    == after[Len(after)]
            IN  /\ Len(after) = Len(before) + 1
                /\ SubSeq(after, 1, Len(before)) = before
                /\ \A i \in DOMAIN before : before[i].id # new.id
                /\ new.item_type = "labor"
                /\ new.quantity = 1
                /\ new.unit_price = 0
                /\ new.line_total = 0]_vars

\* the first of two loaded items was removed and an item added after that:
\* the list holds the item of id 2 and a new item of another id
C24_AddedAfterRemoval ==
    /\ edits = 2
    /\ Len(estimate_line_items["e1"]) = 2
    /\ Len(lineItems["A"]) = 2
    /\ lineItems["A"][1] = estimate_line_items["e1"][2]
    /\ lineItems["A"][2].id # lineItems["A"][1].id
    /\ lineItems["A"][2].description = ""
    /\ lineItems["A"][2].quantity = 1

(***************************************************************************)
(* C25.  The labor fields of the rows a save inserts.                      *)
(***************************************************************************)
\* C25: every stored line item of type labor has labor_hours = quantity and
\* labor_rate = unit_price, and every stored line item of another type has
\* neither, whatever labor_rate the item carried in memory when it was saved.
C25_LaborFieldsFollowType ==
    \A e \in EstimateIds : \A k \in DOMAIN estimate_line_items[e] :
        LET row == estimate_line_items[e][k]
        IN  IF row.item_type = "labor"
            THEN row.labor_hours = Some(row.quantity) /\ row.labor_rate = Some(row.unit_price)
            ELSE row.labor_hours = None /\ row.labor_rate = None

\* a save has stored an item that carried the labor rate 100 in memory
\* after its type was switched from labor to other: the row has no rate
C25_SwitchedTypeStored ==
    /\ SaveWritten("A")
    /\ Len(Val(saveCall["A"]).lineItems) >= 1
    /\ Len(estimate_line_items["e1"]) >= 1
    /\ Val(saveCall["A"]).lineItems[1].item_type = "other"
    /\ Val(saveCall["A"]).lineItems[1].labor_rate = Some(100)
    /\ estimate_line_items["e1"][1].item_type = "other"
    /\ estimate_line_items["e1"][1].description = "Standard Rate"
    /\ estimate_line_items["e1"][1].labor_rate = None
    /\ estimate_line_items["e1"][1].labor_hours = None

(***************************************************************************)
(* The ticket modal (src/src/components/Dispatch/TicketDetailModal.tsx):   *)
(* loadTicket and handleUpdate.                                            *)
(***************************************************************************)
\* the texts handleUpdate tests error.message for with includes()
PermissionPhrases == {"permission denied", "policy", "Row level security"}
RowCountPhrases == {"JSON object requested, multiple", "0 rows"}
BilledPhrase == "Cannot change status of billed ticket"
NonBillablePhrase == "Cannot mark non-billable ticket"
Phrases == PermissionPhrases \cup RowCountPhrases \cup {BilledPhrase, NonBillablePhrase}

\* the messages handleUpdate shows
PermissionMessage ==
    "You do not have permission to update this ticket. Please contact your administrator."
BilledMessage == "Cannot change status of billed ticket. Invoice must be voided first."
NonBillableMessage == "Cannot mark non-billable ticket as ready to invoice."
MissingFieldMessage ==
    "Missing required field. Please ensure all required fields are filled."
InvalidReferenceMessage == "Invalid reference. Please check that all linked records exist."
GenericMessage == "Failed to update ticket. Please try again."
OtherMessage == "Error: (error.message)"
ThrownMessage == "(error.message)"

\* the errors the update may be answered with: a code, and a message that
\* is absent or empty (None) or a text, held as the set of the tested
\* phrases it includes (up to two of them)
ErrorCodes == {"23502", "23503", "PGRST116", "42501", "P0001"}
TicketErrors ==
    { [code |-> c, message |-> m] :
        c \in ErrorCodes,
        m \in {None} \cup { Some(ph) : ph \in { x \in SUBSET Phrases : Cardinality(x) <= 2 } } }

\* error.message.includes(one of the phrases)
Includes(error, phrases) == Val(error.message) \cap phrases # {}

\* handleUpdate: the errorMessage of an error the update returned
errorMessage(error) ==
    IF error.message = None THEN GenericMessage
    ELSE IF Includes(error, PermissionPhrases) THEN PermissionMessage
    ELSE IF Includes(error, RowCountPhrases) THEN PermissionMessage
    ELSE IF Includes(error, {BilledPhrase}) THEN BilledMessage
    ELSE IF Includes(error, {NonBillablePhrase}) THEN NonBillableMessage
    ELSE IF error.code = "23502" THEN MissingFieldMessage
    ELSE IF error.code = "23503" THEN InvalidReferenceMessage
    ELSE IF error.code = "PGRST116" THEN PermissionMessage
    ELSE OtherMessage

\* a row of tickets with the fields the ticket modal updates
StoredTicket(status) ==
    TicketRow(1, EstimateRow("e1", "converted", 10, << LaborRow(1, 0) >>))
      @@ [hours_onsite |-> None, completed_date |-> None]

\* a step of the ticket modal: the estimate modals are left alone
TicketStep(new) ==
    /\ ticketModal' = new
    /\ UNCHANGED << estimates, estimate_line_items, projects, propVars, flagVars, dataVars,
                    catVars, callVars, totals >>

\* loadTicket is answered (ticketId is the id of the first row of tickets)
LoadTicketDone(ok) ==
    /\ ticketModal.ticket = None /\ ticketModal.call = None
    /\ tickets # << >>
    /\ TicketStep(IF ok THEN [TicketModalOf(Some(tickets[1])) EXCEPT
                                 !.onUpdate = ticketModal.onUpdate,
                                 !.onClose = ticketModal.onClose]
                  ELSE ticketModal)
    /\ NoAlert
    /\ calls < MaxCalls
    /\ calls' = calls + 1
    /\ UNCHANGED << tickets, edits >>

\* the Status select
TicketStatusSelect(status) ==
    /\ ticketModal.ticket # None
    /\ edits < MaxEdits
    /\ edits' = edits + 1
    /\ TicketStep([ticketModal EXCEPT !.status = status])
    /\ NoAlert
    /\ UNCHANGED << tickets, calls >>

\* the Hours On-Site input: a number, or the empty text (None)
HoursOnsiteInput(typed) ==
    /\ ticketModal.ticket # None
    /\ edits < MaxEdits
    /\ edits' = edits + 1
    /\ TicketStep([ticketModal EXCEPT !.hoursOnsite = typed])
    /\ NoAlert
    /\ UNCHANGED << tickets, calls >>

\* handleUpdate up to its await: setSaving(true), the updates built
handleUpdate ==
    /\ ticketModal.ticket # None
    /\ ~ticketModal.saving
    /\ TicketStep([ticketModal EXCEPT
            !.saving = TRUE,
            !.call = Some([status |-> ticketModal.status,
                           hours_onsite |-> ticketModal.hoursOnsite,
                           completed_date |->
                              IF ticketModal.status = "completed"
                                 /\ Val(ticketModal.ticket).completed_date = None
                              THEN Now ELSE None])])
    /\ NoAlert
    /\ calls < MaxCalls
    /\ calls' = calls + 1
    /\ UNCHANGED << tickets, edits >>

\* the answers to the update: done, an error returned, an exception thrown
\* (with a message or without)
UpdateAnswers ==
    {[kind |-> "ok"]} \cup { [kind |-> "error", error |-> e] : e \in TicketErrors }
      \cup { [kind |-> "thrown", message |-> m] : m \in BOOLEAN }

\* the update of handleUpdate is answered; then finally: setSaving(false)
TicketUpdateAnswer(answer) ==
    /\ ticketModal.call # None
    /\ LET c == Val(ticketModal.call) IN
       IF answer.kind = "ok"
       THEN /\ tickets' = [tickets EXCEPT ![1] =
                  [@ EXCEPT !.status = c.status,
                            !.hours_onsite = c.hours_onsite,
                            !.completed_date = IF c.completed_date = None THEN @
                                               ELSE c.completed_date]]
            /\ TicketStep([ticketModal EXCEPT !.saving = FALSE, !.call = None,
                                              !.onUpdate = @ + 1, !.onClose = @ + 1])
            /\ NoAlert
       ELSE /\ TicketStep([ticketModal EXCEPT !.saving = FALSE, !.call = None])
            /\ ShowAlert("ticket",
                         IF answer.kind = "error" THEN errorMessage(answer.error)
                         ELSE IF answer.message THEN ThrownMessage ELSE GenericMessage,
                         "update")
            /\ UNCHANGED tickets
    /\ UNCHANGED << edits, calls >>

\* a store with one ticket, shown in the ticket modal
InitTicket ==
    /\ estimate_line_items = [e \in EstimateIds |-> OtherRows]
    /\ estimates = [e \in EstimateIds |-> EstimateRow(e, "draft", 0, OtherRows)]
    /\ \E status \in {"open", "in_progress"} :
          tickets = << [StoredTicket(status) EXCEPT !.status = status] >>
    /\ projects = << >>
    /\ InitModals

NextTicket ==
    \/ \E ok \in BOOLEAN : LoadTicketDone(ok)
    \/ \E status \in {"open", "in_progress", "completed"} : TicketStatusSelect(status)
    \/ \E typed \in {None, Some(2)} : HoursOnsiteInput(typed)
    \/ handleUpdate
    \/ \E answer \in UpdateAnswers : TicketUpdateAnswer(answer)

SpecTicket == InitTicket /\ [][NextTicket]_vars

(***************************************************************************)
(* C26.  The message of a failed ticket update.                            *)
(***************************************************************************)
\* the update of the ticket modal is answered with the error
UpdateFailsWith(error) == TicketUpdateAnswer([kind |-> "error", error |-> error])

\* the alert the step shows in the ticket modal has the text
TicketAlert(text) ==
    lastAlert' = Some([modal |-> "ticket", text |-> text, step |-> "update"])

\* the step calls neither onUpdate nor onClose and writes no ticket
NoCallbacks ==
    /\ ticketModal'.onUpdate = ticketModal.onUpdate
    /\ ticketModal'.onClose = ticketModal.onClose
    /\ tickets' = tickets

\* C26: a failed ticket update is shown as the message of its kind: a
\* permission-denied error (code 42501, its message naming the denial) as the
\* 'contact your administrator' message, an error of code 23502 as the
\* missing-required-field message, an error of code 23503 as the
\* invalid-reference message; and no failed update calls onUpdate or onClose.
C26_ShownByKind ==
    [][/\ \A error \in TicketErrors :
            UpdateFailsWith(error)
              => /\ (/\ error.code = "42501"
                     /\ error.message # None
                     /\ Includes(error, PermissionPhrases)) => TicketAlert(PermissionMessage)
                 /\ error.code = "23502" => TicketAlert(MissingFieldMessage)
                 /\ error.code = "23503" => TicketAlert(InvalidReferenceMessage)
       /\ \A answer \in UpdateAnswers :
            (answer.kind # "ok" /\ TicketUpdateAnswer(answer))
              => lastAlert' # None /\ NoCallbacks /\ ~ticketModal'.saving]_vars

\* what does hold of the codes: an error of code 23502 or 23503 whose message
\* is a text that includes none of the tested phrases is shown as the message
\* of its code, and no failed update calls onUpdate or onClose
ShownByCodeWhenNoPhrase ==
    [][/\ \A error \in TicketErrors :
            (UpdateFailsWith(error) /\ error.message = Some({}))
              => /\ error.code = "23502" => TicketAlert(MissingFieldMessage)
                 /\ error.code = "23503" => TicketAlert(InvalidReferenceMessage)
       /\ \A error \in TicketErrors :
            (/\ UpdateFailsWith(error)
             /\ error.message # None
             /\ Includes(error, PermissionPhrases)) => TicketAlert(PermissionMessage)
       /\ \A answer \in UpdateAnswers :
            (answer.kind # "ok" /\ TicketUpdateAnswer(answer))
              => lastAlert' # None /\ NoCallbacks /\ ~ticketModal'.saving]_vars

(***************************************************************************)
(* C27.  Two modals saving the same estimate.                              *)
(***************************************************************************)
\* two modals (tabs, users) edit estimate e1 and save it, the steps of the
\* two saves in any order
InitRace == InitStoreOf({"draft"}) /\ Loaded(Sessions, "e1", TRUE, FALSE)

NextRace ==
    \E s \in Sessions : \E ok \in BOOLEAN :
        \/ \E id \in 1..MaxItems : UnitPriceInput(s, id, Some(50))
        \/ \E id \in 1..MaxItems : RemoveClick(s, id)
        \/ SaveClick(s)
        \/ SaveUpdate(s, ok)
        \/ SaveDelete(s, ok)
        \/ SaveInsert(s, ok)
        \/ SaveLoad(s, ok)

SpecRace == InitRace /\ [][NextRace]_vars

\* the store holds for estimate e the list and the totals the save of modal
\* s wrote
StoreIsOf(e, s) ==
    /\ StoresTheNonBlank(estimate_line_items[e], Val(saveCall[s]).lineItems)
    /\ StoredTotals(e) = [subtotal  |-> Val(saveCall[s]).totals.subtotal,
                          taxAmount |-> Val(saveCall[s]).totals.taxAmount,
                          total     |-> Val(saveCall[s]).totals.total]

\* C27: when the saves of two modals on the same estimate have both made
\* their writes without error (only their reloads are left), the stored line
\* items are the filtered list of one of the two modals, and the stored
\* totals are those of that modal's list.
C27_OneSaveWins ==
    (\A s \in Sessions : SaveWritten(s) /\ Val(saveCall[s]).estimate.id = "e1")
      => \E s \in Sessions : StoreIsOf("e1", s)

(***************************************************************************)
(* C28.  A conversion after unsaved edits of the header.                   *)
(***************************************************************************)
\* one modal on the accepted estimate e1: the header inputs of the edit
\* mode and the two conversions
InitConvert == InitStoreOf({"accepted"}) /\ Loaded({"A"}, "e1", FALSE, TRUE)

NextConvert ==
    \E ok \in BOOLEAN :
        \/ EditClick("A")
        \/ JobTitleInput("A", "Renamed")
        \/ \E field \in {"job_description", "notes"} : TextInput("A", field, "text")
        \/ \E kind \in {"ticket", "project"} : \E confirmed \in BOOLEAN :
                ConvertClick("A", kind, confirmed)
        \/ ConvertInsert("A", ok)
        \/ ConvertUpdate("A", ok)
        \/ ConvertLoad("A", ok)

SpecConvert == InitConvert /\ [][NextConvert]_vars

\* the description a ticket gets from a stored job description
TicketDescriptionOf(text) == IF text = "" THEN "Converted from estimate" ELSE text

\* C28: every ticket and project created by a conversion carries the job
\* title and the job description stored for its estimate (a ticket the
\* fallback text where the stored description is empty), also when the
\* header was edited in the modal and not saved before the conversion.
C28_CreatedFromStored ==
    /\ \A i \in DOMAIN tickets :
         /\ tickets[i].title = estimates[tickets[i].from_estimate].job_title
         /\ tickets[i].description
              = TicketDescriptionOf(estimates[tickets[i].from_estimate].job_description)
    /\ \A i \in DOMAIN projects :
         /\ projects[i].name = estimates[projects[i].from_estimate].job_title
         /\ projects[i].description = estimates[projects[i].from_estimate].job_description

(***************************************************************************)
(* C29.  Loads of different estimates answered in any order.               *)
(***************************************************************************)
\* no loadEstimateDetails of modal s is in flight
NoLoadInFlight(s) == \A e \in EstimateIds : loadCalls[s][e] = 0

\* C29: once no load of an open modal is in flight, the estimate it holds is
\* the selected one and its line items are rows stored for the selected
\* estimate, whatever the order in which the loads were answered.
C29_HoldsTheSelected ==
    \A s \in Sessions :
        (isOpen[s] /\ estimateId[s] # None /\ NoLoadInFlight(s) /\ estimate[s] # None)
          => /\ Val(estimate[s]).id = Val(estimateId[s])
             /\ lineItems[s] \in OrderedByLineOrder(estimate_line_items[Val(estimateId[s])])

(***************************************************************************)
(* C30.  What each handler leaves alone in the store.                      *)
(***************************************************************************)
\* one modal on estimate e1, stored as sent or as accepted: a price edited,
\* Save, the status buttons and the conversions
InitFrame == InitStoreOf({"sent", "accepted"}) /\ Loaded({"A"}, "e1", FALSE, TRUE)

NextFrame ==
    \E ok \in BOOLEAN :
        \/ EditClick("A")
        \/ edits < MaxApply /\ UnitPriceInput("A", 1, Some(50))
        \/ SaveClick("A")
        \/ SaveUpdate("A", ok)
        \/ SaveDelete("A", ok)
        \/ SaveInsert("A", ok)
        \/ SaveLoad("A", ok)
        \/ \E newStatus \in {"sent", "accepted", "rejected"} : StatusClick("A", newStatus)
        \/ \E i \in DOMAIN statusCalls["A"] : StatusUpdate("A", i, ok)
        \/ \E i \in DOMAIN statusCalls["A"] : StatusLoad("A", i, ok)
        \/ \E kind \in {"ticket", "project"} : \E confirmed \in BOOLEAN :
                ConvertClick("A", kind, confirmed)
        \/ ConvertInsert("A", ok)
        \/ ConvertUpdate("A", ok)
        \/ ConvertLoad("A", ok)

SpecFrame == InitFrame /\ [][NextFrame]_vars

\* the columns of an estimate the header update of handleSave names
SavedColumns ==
    {"job_title", "job_description", "site_location", "tax_rate", "subtotal",
     "tax_amount", "total_amount", "notes", "terms_conditions"}

\* the columns a status change or a conversion may write
FlowColumns ==
    {"status", "sent_date", "accepted_date", "rejected_date", "conversion_date",
     "converted_to_ticket_id", "converted_to_project_id"}

\* a step changes no column of a stored estimate outside the set columns
OnlyColumnsChange(columns) ==
    \A e \in EstimateIds :
        \A f \in DOMAIN estimates[e] :
            f \notin columns => estimates'[e][f] = estimates[e][f]

\* C30: every step of handleSave leaves the status, the conversion
\* references, the customer and every other column of the stored estimates
\* as they were, except the title, description, site location, tax rate,
\* totals, notes and terms; every step of handleStatusChange and of the
\* conversions leaves the stored totals and all stored line items as they
\* were (they write only the status, its dates and the references).
C30_HandlersKeepTheRest ==
    [][\A ok \in BOOLEAN :
          /\ (SaveUpdate("A", ok) \/ SaveDelete("A", ok) \/ SaveInsert("A", ok) \/ SaveLoad("A", ok))
                => OnlyColumnsChange(SavedColumns)
          /\ (\/ \E i \in DOMAIN statusCalls["A"] : StatusUpdate("A", i, ok) \/ StatusLoad("A", i, ok)
              \/ ConvertInsert("A", ok) \/ ConvertUpdate("A", ok) \/ ConvertLoad("A", ok))
                => /\ OnlyColumnsChange(FlowColumns)
                   /\ estimate_line_items' = estimate_line_items]_vars

\* an estimate was saved with a new price and then converted: the store
\* holds the new price and its totals, and the status converted
C30_SavedThenConverted ==
    /\ estimates["e1"].status = "converted"
    /\ convertCall["A"] = None /\ saveCall["A"] = None
    /\ Len(estimate_line_items["e1"]) >= 1
    /\ estimate_line_items["e1"][1].unit_price = 50
    /\ StoredTotals("e1") = DerivedTotals("e1")

====
